---------------------------- MODULE Spec2Model ----------------------------
(***************************************************************************)
(* A model of the solstice-agent runtime: the context compactor            *)
(* (agent/compactor.py), the tool-calling loop (agent/core.py), the agent  *)
(* pool (agent/router.py) and the persistent scheduler                     *)
(* (agent/scheduler.py).                                                   *)
(*                                                                         *)
(* Each component has its own specification over the shared variables:     *)
(*   SpecCompactor  compact() applied to well-formed histories             *)
(*   SpecChat       Agent.chat, one agent, sequential calls                *)
(*   SpecPool       AgentPool.get_agent, sequential calls                  *)
(*   SpecPoolConc   AgentPool.get_agent, two request threads               *)
(*   SpecSched      Scheduler: add/remove job and the timer loop           *)
(*   SpecTimers     init_scheduler, start, stop and the timer threads      *)
(*   SpecFile       the rewrites of the jobs file by concurrent threads    *)
(*   SpecLoad       Scheduler._load_jobs at startup                        *)
(*   SpecCap        cron_add and the other callers of add_job              *)
(*   SpecDeliver    Scheduler._deliver_result                              *)
(*   SpecParse      ScheduleParser.next_run on schedules and times         *)
(*   SpecTerminal   run_command and run_background                         *)
(*   SpecFetch      fetch_url and its redirects                            *)
(*   SpecInbound    GatewayManager.process_inbound on one request          *)
(*   SpecBots       auto_configure and the long-lived channels             *)
(*   SpecDispatch   Agent._execute_tool on the tool calls of a response    *)
(*   SpecTurn       Agent.chat / chat_stream: history, working list, API   *)
(*   SpecSingleton  lazy getters and initialisers of a global singleton    *)
(*   SpecRoute      AgentRouter.route on one message                       *)
(*   SpecRegister   ToolRegistry.register / apply and Agent.register_tool  *)
(*   SpecShared     Agent.chat of two request threads on one instance      *)
(* A component's actions leave the other components' variables unchanged.  *)
(***************************************************************************)
EXTENDS Integers, Sequences, FiniteSets, TLC

VARIABLES
  \* ---- compactor (agent/compactor.py)
  cCfg,        \* CompactorConfig: [keep_recent, window, pct]
  cHist,       \* the history handed to compact(), then its result
  cOut,        \* outcome of the last compact(): "none", "unchanged",
               \* "summary", "recent" or "IndexError"
  cNextId,     \* next unused tool-call id
  cCut,        \* how many messages the last compact() took off the front
  cCalls,      \* provider calls made by the latest compact
  \* ---- one agent (agent/core.py)
  aCompactor,  \* TRUE when the agent was built with a compactor
  aHist,       \* Agent.history
  aPc,         \* "idle", "loop", "returned" or "raised"
  aIter,       \* provider calls the tool loop of this chat has made
  aLastText,   \* len(response.text) of the latest response
  aPending,    \* the latest response held a tool call whose handler raised
  aFailed,     \* tool calls whose handler raised, in this chat
  aSumCalls,   \* provider calls the compactor made for this chat
  aLen0,       \* len(history) when this chat was entered
  aOut,        \* what compact-or-trim did at the end of this chat
  aRet,        \* [kind, chars] of the text chat returned
  aChats,      \* chat calls made so far
  aNextMsg,    \* next unused message id
  \* ---- the agent pool (agent/router.py)
  pConfigs,    \* AgentPool._configs: the configured agent names
  pAgents,     \* AgentPool._agents: the OrderedDict, oldest entry first,
               \* as a sequence of [key, inst]
  pNext,       \* the next agent instance to be constructed
  pTouched,    \* per instance, the (name, sender) pairs whose messages its
               \* history holds
  pSeen,       \* per (name, sender), the instance its latest call returned,
               \* 0 once that entry was evicted
  pRecency,    \* the cached keys, least recently used first
  pEvicted,    \* the keys evicted so far
  pLast,       \* the latest get_agent call of the sequential pool
  \* ---- request threads calling get_agent
  tPc,         \* per thread: "idle", "check", "move", "read", "create",
               \* "insert", "evict", "done", "KeyError", "ValueError"
  tReq,        \* per thread: [name, sender, rname, key] of its call
  tNew,        \* per thread: the agent it constructed, 0 if none
  tRet,        \* per thread: the agent its call returned, 0 if none
  tStarted,    \* get_agent calls the threads have entered so far
  \* ---- the scheduler (agent/scheduler.py); times are whole minutes
  sClock,      \* datetime.now(timezone.utc)
  sRunning,    \* Scheduler._running
  sPc,         \* the timer thread: "none" (not started), "sleep", "check"
  sWake,       \* when the time.sleep of the timer thread ends
  sTickNow,    \* `now` of the _check_jobs call in progress
  sSnap,       \* the ids of list(self._jobs.items()) still to be visited
  sJobs,       \* the job dicts, by id; NoJob for an id not yet created
  sIn,         \* the ids that are keys of Scheduler._jobs
  sNextJob,    \* the next job id to be created
  sFile,       \* the jobs file: [ids, jobs] as last written
  sDue,        \* the jobs that were enabled and due when this tick began
  sAttempted,  \* the jobs _execute_job was called for in this tick
  sTickEnd,    \* how the latest tick ended: "none", "returned", "raised"
  sMissed,     \* the jobs due when the latest tick began that it left
               \* without calling _execute_job for them
  sRow,        \* per job, failed executions since its last success
  sWriteFails, \* writes of the jobs file that raised
  sWon,        \* the jobs that have had a successful execution
  sExec,       \* the latest _execute_job: [job, ok, at, before, after]
  \* ---- Scheduler objects and their timer threads in one process
  gScheduler,  \* the module-level _scheduler: an object, 0 for None
  oMade,       \* Scheduler objects constructed so far
  oRunning,    \* per object, Scheduler._running
  oThread,     \* per object, Scheduler._thread: a thread, 0 for None
  oDue,        \* per object, its copy of the stored job is still due
  lMade,       \* timer threads created so far
  lObj,        \* per thread, the Scheduler whose _loop it runs
  lPc,         \* per thread: "none", "test", "check", "run", "sleep",
               \* "exited"
  lExecuted,   \* executions of the one due occurrence of the stored job
  \* ---- the jobs file and the threads that rewrite it
  fMem,        \* the ids of Scheduler._jobs
  fFile,       \* the jobs file: [complete, jobs]; complete is FALSE while
               \* the file does not hold one whole JSON array
  fNext,       \* the next job id
  fCrashed,    \* the process has died
  wPc,         \* per writer: "idle", "dump", "open", "write"
  wDump,       \* per writer, the job ids in the text json.dumps returned
  \* ---- loading the jobs file at startup
  dFile,       \* the array in the jobs file at startup
  dJobs,       \* Scheduler._jobs after _load_jobs, as a set of records
  dWarned,     \* _load_jobs logged its warning
  dPc,         \* "new" before Scheduler.__init__, "loaded" after
  \* ---- the ceiling on scheduled jobs
  kJobs,       \* len(Scheduler._jobs)
  kFile,       \* the number of jobs in the jobs file
  kOutreach,   \* how many of the jobs the outreach orchestrator added
  kPc,         \* per caller of cron_add: "idle" or "add" (past the test)
  kRet,        \* per caller, what cron_add returned last
  \* ---- delivery of a job's result
  vJob,        \* the job that ran: [channel, recipient]
  vGateway,    \* Scheduler._gateway: [present, configured, send]
  vPc,         \* "ran" after agent.chat returned, "done" after _deliver_result
  vResult,     \* where the result went: "none", "delivered", "file", "dropped"
  \* ---- schedule parsing (ScheduleParser)
  nSchedule,   \* the schedule handed to ScheduleParser.next_run
  nNow,        \* from_time, in minutes since 2026-01-01 00:00 UTC
  nOut,        \* what next_run returned, None for no next run
  nPc,         \* "new" before the call, "parsed" after
  \* ---- the shell tools (tools/terminal.py)
  xCmd,        \* the command handed to the tool: what the searches find in it
  xCallback,   \* _confirm_callback
  xActive,     \* the number of live background sessions
  xPc,         \* "called" before the tool runs, "returned" after
  xRet,        \* the kind of string the tool returned
  xSpawned,    \* the tool started a subprocess
  xAsked,      \* the tool called _confirm_callback
  \* ---- fetch_url (tools/web.py)
  hClass,      \* per URL, what validate_url finds in it
  hAnswer,     \* per URL, the answer of its server
  hUrl,        \* the URL handed to fetch_url
  hPc,         \* "called", "loop", "status" or "returned"
  hCurrent,    \* current_url
  hIter,       \* the passes of the loop that ended in a followed redirect
  hRequested,  \* the URLs httpx.get was called with, in order
  hAccepted,   \* the URLs validate_url has accepted in this fetch
  hRet,        \* what fetch_url returned
  \* ---- the gateway's inbound pipeline (gateway/manager.py)
  iEnv,        \* the request: what the channel, router, pool and agent do
  iPc,         \* where process_inbound is; "raised": an exception left it
  iCalls,      \* the calls process_inbound has made, in order
  iText,       \* response_text
  iSent,       \* the (text, metadata) pairs handed to channel.send_message
  iRet,        \* what process_inbound returned
  \* ---- the gateway's long-lived channels (gateway/manager.py)
  bEnabled,    \* long-lived channels enabled in the configuration
  bConfigured, \* long-lived channels whose is_configured() is true
  bPc,         \* "constructed" or "configured" (auto_configure has run)
  bChannels,   \* long-lived channels in self.channels
  bStarted,    \* channels whose start_bot thread runs
  bPosted,     \* messages users posted, per channel
  bHanded,     \* messages handed to _process_message, per channel
  \* ---- tool dispatch (agent/core.py _execute_tool)
  eCalls,      \* response.tool_calls
  eDone,       \* how many of them _execute_tool has handled
  eResults,    \* the tool results appended to the working list
  ePc,         \* "loop", "next iteration", or "raised"
  \* ---- one agent's turns with the working list (agent/core.py)
  qTools,      \* tools are registered and the provider supports them
  qHist,       \* self.history
  qMsgs,       \* the working list `messages` of the current call
  qPc,         \* "idle", "loop", "stream", "late", "returned", "raised"
  qMode,       \* "chat" or "chat_stream"
  qIter,       \* iteration of the tool loop
  qLast,       \* response.text of the latest response with tool calls
  qApi,        \* the provider calls of the current call, in order
  qEvents,     \* the StreamEvents yielded by the current call
  qFull,       \* full_text of the streaming pass
  qTurns,      \* calls of chat / chat_stream so far
  \* ---- a module-level singleton (skills.py, memory.py, scheduler.py)
  jGlobal,     \* the module-level variable: an object, or 0 for None
  jPc,         \* per thread: "idle", "construct", "assign", "return", "setup"
  jLocal,      \* per thread: the object it constructed
  jMade,       \* objects constructed so far
  jReady,      \* objects whose set-up is complete
  jSeen,       \* objects handed to a caller
  jSeenUnready,\* a caller was handed an object before its set-up ended
  jCalls,      \* calls of the getter and the initialiser so far
  \* ---- the router (agent/router.py AgentRouter.route)
  rStrategy,   \* AgentRouter.strategy
  rRules,      \* AgentRouter.rules, in insertion order
  rBefore,     \* the message as it was handed to route
  rMsg,        \* the message object
  rName,       \* the agent name route returned
  rPc,         \* "new" or "routed"
  \* ---- tool registration (tools/registry.py, agent/core.py)
  uHandlers,   \* ToolRegistry._handlers
  uSchemas,    \* ToolRegistry._schemas
  uOrder,      \* the names of the registry in insertion order
  uTools,      \* Agent._tools
  uToolSchemas,\* Agent._tool_schemas
  uLast,       \* per name, the latest registration with the agent
  uLastReg,    \* per name, the latest registration with the registry
  uTwice,      \* names registered with the agent more than once
  uMatched,    \* every schema so far carried the name it was registered under
  uCalls,      \* calls of register, register_tool and apply so far
  \* ---- two requests on one agent instance (server.py, agent/core.py)
  yHist,       \* self.history of the shared agent
  yPc,         \* per thread: "idle", "provider", "trim", "assign"
  yReq,        \* per thread: the request it is handling
  ySlice,      \* per thread: the slice _trim_history computed
  yBase,       \* per thread: the length of the history the slice was cut from
  yRequests,   \* requests started so far
  yLost        \* appends overwritten by an assignment of a slice

compactorVars == <<cCfg, cHist, cOut, cNextId, cCut, cCalls>>

chatVars == <<aCompactor, aHist, aPc, aIter, aLastText, aPending,
              aFailed, aSumCalls, aLen0, aOut, aRet, aChats, aNextMsg>>

poolVars == <<pConfigs, pAgents, pNext, pTouched, pSeen, pRecency,
              pEvicted, pLast>>

threadVars == <<tPc, tReq, tNew, tRet, tStarted>>

schedVars == <<sClock, sRunning, sPc, sWake, sTickNow, sSnap, sJobs, sIn,
               sNextJob, sFile, sDue, sAttempted, sTickEnd, sMissed, sRow,
               sWriteFails, sWon, sExec>>

timerVars == <<gScheduler, oMade, oRunning, oThread, oDue, lMade, lObj, lPc,
               lExecuted>>

fileVars == <<fMem, fFile, fNext, fCrashed, wPc, wDump>>

loadVars == <<dFile, dJobs, dWarned, dPc>>

capVars == <<kJobs, kFile, kOutreach, kPc, kRet>>

deliverVars == <<vJob, vGateway, vPc, vResult>>

parseVars == <<nSchedule, nNow, nOut, nPc>>

terminalVars == <<xCmd, xCallback, xActive, xPc, xRet, xSpawned, xAsked>>

fetchVars == <<hClass, hAnswer, hUrl, hPc, hCurrent, hIter, hRequested, hAccepted, hRet>>

inboundVars == <<iEnv, iPc, iCalls, iText, iSent, iRet>>

botsVars == <<bEnabled, bConfigured, bPc, bChannels, bStarted, bPosted, bHanded>>

dispatchVars == <<eCalls, eDone, eResults, ePc>>

turnVars == <<qTools, qHist, qMsgs, qPc, qMode, qIter, qLast, qApi, qEvents, qFull, qTurns>>

singletonVars == <<jGlobal, jPc, jLocal, jMade, jReady, jSeen, jSeenUnready, jCalls>>

routeVars == <<rStrategy, rRules, rBefore, rMsg, rName, rPc>>

registerVars == <<uHandlers, uSchemas, uOrder, uTools, uToolSchemas, uLast, uLastReg, uTwice, uMatched, uCalls>>

sharedVars == <<yHist, yPc, yReq, ySlice, yBase, yRequests, yLost>>

vars == <<compactorVars, chatVars, poolVars, threadVars, schedVars,
          timerVars, fileVars, loadVars, capVars, deliverVars, parseVars,
          terminalVars, fetchVars, inboundVars, botsVars, dispatchVars,
          turnVars, singletonVars, routeVars, registerVars, sharedVars>>

exceptShared == <<compactorVars, chatVars, poolVars, threadVars, schedVars,
                  timerVars, fileVars, loadVars, capVars, deliverVars,
                  parseVars, terminalVars, fetchVars, inboundVars, botsVars,
                  dispatchVars, turnVars, singletonVars, routeVars,
                  registerVars>>
exceptRegister == <<compactorVars, chatVars, poolVars, threadVars, schedVars,
                    timerVars, fileVars, loadVars, capVars, deliverVars,
                    parseVars, terminalVars, fetchVars, inboundVars,
                    botsVars, dispatchVars, turnVars, singletonVars,
                    routeVars, sharedVars>>
exceptRoute == <<compactorVars, chatVars, poolVars, threadVars, schedVars,
                 timerVars, fileVars, loadVars, capVars, deliverVars,
                 parseVars, terminalVars, fetchVars, inboundVars, botsVars,
                 dispatchVars, turnVars, singletonVars, registerVars,
                 sharedVars>>
exceptSingleton == <<compactorVars, chatVars, poolVars, threadVars,
                     schedVars, timerVars, fileVars, loadVars, capVars,
                     deliverVars, parseVars, terminalVars, fetchVars,
                     inboundVars, botsVars, dispatchVars, turnVars,
                     routeVars, registerVars, sharedVars>>
exceptTurn == <<compactorVars, chatVars, poolVars, threadVars, schedVars,
                timerVars, fileVars, loadVars, capVars, deliverVars,
                parseVars, terminalVars, fetchVars, inboundVars, botsVars,
                dispatchVars, singletonVars, routeVars, registerVars,
                sharedVars>>
exceptDispatch == <<compactorVars, chatVars, poolVars, threadVars, schedVars,
                    timerVars, fileVars, loadVars, capVars, deliverVars,
                    parseVars, terminalVars, fetchVars, inboundVars,
                    botsVars, turnVars, singletonVars, routeVars,
                    registerVars, sharedVars>>
exceptBots == <<compactorVars, chatVars, poolVars, threadVars, schedVars,
                timerVars, fileVars, loadVars, capVars, deliverVars,
                parseVars, terminalVars, fetchVars, inboundVars,
                dispatchVars, turnVars, singletonVars, routeVars,
                registerVars, sharedVars>>
exceptInbound == <<compactorVars, chatVars, poolVars, threadVars, schedVars,
                   timerVars, fileVars, loadVars, capVars, deliverVars,
                   parseVars, terminalVars, fetchVars, botsVars,
                   dispatchVars, turnVars, singletonVars, routeVars,
                   registerVars, sharedVars>>
exceptFetch == <<compactorVars, chatVars, poolVars, threadVars, schedVars,
                 timerVars, fileVars, loadVars, capVars, deliverVars,
                 parseVars, terminalVars, inboundVars, botsVars,
                 dispatchVars, turnVars, singletonVars, routeVars,
                 registerVars, sharedVars>>
exceptTerminal == <<compactorVars, chatVars, poolVars, threadVars, schedVars,
                    timerVars, fileVars, loadVars, capVars, deliverVars,
                    parseVars, fetchVars, inboundVars, botsVars,
                    dispatchVars, turnVars, singletonVars, routeVars,
                    registerVars, sharedVars>>
exceptParse == <<compactorVars, chatVars, poolVars, threadVars, schedVars,
                 timerVars, fileVars, loadVars, capVars, deliverVars,
                 terminalVars, fetchVars, inboundVars, botsVars,
                 dispatchVars, turnVars, singletonVars, routeVars,
                 registerVars, sharedVars>>
exceptDeliver == <<compactorVars, chatVars, poolVars, threadVars, schedVars,
                   timerVars, fileVars, loadVars, capVars, parseVars,
                   terminalVars, fetchVars, inboundVars, botsVars,
                   dispatchVars, turnVars, singletonVars, routeVars,
                   registerVars, sharedVars>>
exceptCap == <<compactorVars, chatVars, poolVars, threadVars, schedVars,
               timerVars, fileVars, loadVars, deliverVars, parseVars,
               terminalVars, fetchVars, inboundVars, botsVars, dispatchVars,
               turnVars, singletonVars, routeVars, registerVars, sharedVars>>
exceptLoad == <<compactorVars, chatVars, poolVars, threadVars, schedVars,
                timerVars, fileVars, capVars, deliverVars, parseVars,
                terminalVars, fetchVars, inboundVars, botsVars, dispatchVars,
                turnVars, singletonVars, routeVars, registerVars,
                sharedVars>>
exceptCompactor == <<chatVars, poolVars, threadVars, schedVars, timerVars,
                     fileVars, loadVars, capVars, deliverVars, parseVars,
                     terminalVars, fetchVars, inboundVars, botsVars,
                     dispatchVars, turnVars, singletonVars, routeVars,
                     registerVars, sharedVars>>
exceptChat == <<compactorVars, poolVars, threadVars, schedVars, timerVars,
                fileVars, loadVars, capVars, deliverVars, parseVars,
                terminalVars, fetchVars, inboundVars, botsVars, dispatchVars,
                turnVars, singletonVars, routeVars, registerVars,
                sharedVars>>
exceptPool == <<compactorVars, chatVars, schedVars, timerVars, fileVars,
                loadVars, capVars, deliverVars, parseVars, terminalVars,
                fetchVars, inboundVars, botsVars, dispatchVars, turnVars,
                singletonVars, routeVars, registerVars, sharedVars>>
exceptSched == <<compactorVars, chatVars, poolVars, threadVars, timerVars,
                 fileVars, loadVars, capVars, deliverVars, parseVars,
                 terminalVars, fetchVars, inboundVars, botsVars,
                 dispatchVars, turnVars, singletonVars, routeVars,
                 registerVars, sharedVars>>
exceptFile == <<compactorVars, chatVars, poolVars, threadVars, schedVars,
                timerVars, loadVars, capVars, deliverVars, parseVars,
                terminalVars, fetchVars, inboundVars, botsVars, dispatchVars,
                turnVars, singletonVars, routeVars, registerVars,
                sharedVars>>
exceptTimers == <<compactorVars, chatVars, poolVars, threadVars, schedVars,
                  fileVars, loadVars, capVars, deliverVars, parseVars,
                  terminalVars, fetchVars, inboundVars, botsVars,
                  dispatchVars, turnVars, singletonVars, routeVars,
                  registerVars, sharedVars>>

-----------------------------------------------------------------------------
(***************************************************************************)
(* Messages.  A message is the Python dict of the history reduced to what  *)
(* the compactor reads: the role, whether content is a str or a list of    *)
(* blocks, the number of characters estimate_tokens counts for it, the     *)
(* ids of its tool_use blocks (Anthropic shape), the ids of its            *)
(* tool_calls array (OpenAI shape) and the id its tool result answers      *)
(* (tool_call_id of a role=tool message, tool_use_id of a tool_result      *)
(* block; 0 when it is no tool result).                                    *)
(***************************************************************************)
TextMsg(role, n) ==
  [role |-> role, content |-> "str", chars |-> n,
   uses |-> <<>>, calls |-> <<>>, result |-> 0, id |-> 0]

\* a text turn of a conversation; id stands for its text
Turn(role, n, id) == [TextMsg(role, n) EXCEPT !.id = id]

\* core.py _format_assistant_tool_message, OpenAIProvider branch
OpenAIToolUse(ids, n) ==
  [role |-> "assistant", content |-> "str", chars |-> n,
   uses |-> <<>>, calls |-> ids, result |-> 0, id |-> 0]

\* core.py _format_assistant_tool_message, AnthropicProvider branch
AnthropicToolUse(ids, n) ==
  [role |-> "assistant", content |-> "list", chars |-> n,
   uses |-> ids, calls |-> <<>>, result |-> 0, id |-> 0]

\* core.py _format_tool_result, OpenAIProvider branch
OpenAIToolResult(id, n) ==
  [role |-> "tool", content |-> "str", chars |-> n,
   uses |-> <<>>, calls |-> <<>>, result |-> id, id |-> 0]

\* core.py _format_tool_result, AnthropicProvider branch
AnthropicToolResult(id, n) ==
  [role |-> "user", content |-> "list", chars |-> n,
   uses |-> <<>>, calls |-> <<>>, result |-> id, id |-> 0]

\* len(msg["role"])
RoleLen(role) == IF role = "assistant" THEN 9 ELSE 4

\* len(SUMMARY_PREFIX)
SummaryPrefixLen == 33

\* CompactorConfig defaults and the smallest window of MODEL_CONTEXT_WINDOWS
DefaultKeepRecent == 10
DefaultThresholdPct == 75
Gpt4Window == 8192

-----------------------------------------------------------------------------
(***************************************************************************)
(* ContextCompactor                                                        *)
(***************************************************************************)
RECURSIVE SumChars(_)
SumChars(h) ==
  IF h = <<>> THEN 0
  ELSE Head(h).chars + RoleLen(Head(h).role) + 4 + SumChars(Tail(h))

\* estimate_tokens: total characters plus framing, // 4
EstimateTokens(h) == SumChars(h) \div 4

\* int(self._context_window * self.config.threshold), threshold = pct/100
ThresholdTokens(cfg) == (cfg.window * cfg.pct) \div 100

\* a needs_compaction that does not look at the token estimate
NeedsCompactionWhenLong(h, cfg) == Len(h) > cfg.keep_recent

NeedsCompaction(h, cfg) ==
  IF Len(h) <= cfg.keep_recent THEN FALSE
  ELSE EstimateTokens(h) > ThresholdTokens(cfg)

\* the assistant branch of _safe_split_point: a tool_use block in a list
\* content, or a non-empty tool_calls array
IsToolUse(m) ==
  /\ m.role = "assistant"
  /\ \/ (m.content = "list" /\ Len(m.uses) > 0)
     \/ Len(m.calls) > 0

\* the tool-result branches: role == "tool", or a user message whose list
\* content holds a tool_result block
IsToolResult(m) ==
  \/ m.role = "tool"
  \/ (m.role = "user" /\ m.content = "list" /\ m.result # 0)

IndexError == -1

\* _safe_split_point.  idx is the 0-based Python index; history[idx] is
\* h[idx + 1].  Reading history[len(history)] raises IndexError.
RECURSIVE SafeSplitPoint(_, _)
SafeSplitPoint(h, idx) ==
  IF idx <= 0 THEN 0
  ELSE IF idx >= Len(h) THEN IndexError
  ELSE IF IsToolUse(h[idx + 1]) THEN SafeSplitPoint(h, idx - 1)
  ELSE IF IsToolResult(h[idx + 1]) THEN SafeSplitPoint(h, idx - 1)
  ELSE idx

\* a compact that hands back the whole history when _summarize failed
CompactKeepingAllOnFailure(h, cfg, summary) ==
  IF ~NeedsCompaction(h, cfg) THEN [out |-> "unchanged", hist |-> h, cut |-> 0]
  ELSE LET split == SafeSplitPoint(h, Len(h) - cfg.keep_recent) IN
    IF split = IndexError THEN [out |-> "IndexError", hist |-> h, cut |-> 0]
    ELSE IF split <= 0 THEN [out |-> "unchanged", hist |-> h, cut |-> 0]
    ELSE IF summary = 0
      THEN [out |-> "recent", cut |-> split, hist |-> h]
      ELSE [out |-> "summary", cut |-> split,
            hist |-> <<TextMsg("user", summary)>>
                       \o SubSeq(h, split + 1, Len(h))]

\* compact(history): the outcome and the returned history.  summary is the
\* length of the summary text the provider returned, or 0 when
\* _summarize returned None (the provider raised).
Compact(h, cfg, summary) ==
  IF ~NeedsCompaction(h, cfg) THEN [out |-> "unchanged", hist |-> h, cut |-> 0]
  ELSE LET split == SafeSplitPoint(h, Len(h) - cfg.keep_recent) IN
    IF split = IndexError THEN [out |-> "IndexError", hist |-> h, cut |-> 0]
    ELSE IF split <= 0 THEN [out |-> "unchanged", hist |-> h, cut |-> 0]
    ELSE IF summary = 0
      THEN [out |-> "recent", cut |-> split,
            hist |-> SubSeq(h, split + 1, Len(h))]
      ELSE [out |-> "summary", cut |-> split,
            hist |-> <<TextMsg("user", summary)>>
                       \o SubSeq(h, split + 1, Len(h))]

\* the calls of self.provider.chat one compact(history) makes: one, in
\* _summarize, once the three early returns are passed
SummarizeCalls(h, cfg) ==
  IF ~NeedsCompaction(h, cfg) THEN 0
  ELSE LET split == SafeSplitPoint(h, Len(h) - cfg.keep_recent) IN
    IF split = IndexError \/ split <= 0 THEN 0 ELSE 1

-----------------------------------------------------------------------------
(***************************************************************************)
(* SpecCompactor: compact() applied, repeatedly, to histories built from   *)
(* text turns and complete tool exchanges (an assistant message with n     *)
(* tool calls followed by its n tool results, in either provider shape).   *)
(***************************************************************************)
MaxHist == 5
MaxIds == 4
MaxKeepRecent == 3
MaxCalls == 2

\* context_window overrides (tests use 100 and 200) and thresholds in percent
Windows == {100}
Pcts == {50, 100}
\* content lengths of text messages and of tool results
CharChoices == {0, 200}
ToolChars == 40
\* lengths of the summary text: the bare prefix, or prefix plus digest
SummaryLens == {SummaryPrefixLen, 240}

Configs ==
  [keep_recent : 0..MaxKeepRecent, window : Windows, pct : Pcts]

CompactorInit ==
  /\ cCfg \in Configs
  /\ cHist = <<>>
  /\ cOut = "none"
  /\ cNextId = 1
  /\ cCut = 0
  /\ cCalls = 0

\* the compactor component at rest, for the other specifications
CompactorIdle ==
  /\ cCfg = [keep_recent |-> DefaultKeepRecent, window |-> Gpt4Window,
             pct |-> DefaultThresholdPct]
  /\ cHist = <<>>
  /\ cOut = "none"
  /\ cNextId = 1
  /\ cCut = 0
  /\ cCalls = 0

CAppendText ==
  /\ Len(cHist) < MaxHist
  /\ \E role \in {"user", "assistant"}, n \in CharChoices :
       cHist' = Append(cHist, TextMsg(role, n))
  /\ UNCHANGED <<cCfg, cOut, cNextId, cCut, cCalls, exceptCompactor>>

\* the messages Agent.chat adds for one response with n tool calls
Exchange(fmt, first, n) ==
  LET ids == [k \in 1..n |-> first + k - 1] IN
  IF fmt = "openai"
  THEN <<OpenAIToolUse(ids, 0)>>
         \o [k \in 1..n |-> OpenAIToolResult(ids[k], ToolChars)]
  ELSE <<AnthropicToolUse(ids, 0)>>
         \o [k \in 1..n |-> AnthropicToolResult(ids[k], ToolChars)]

CAppendExchange ==
  /\ \E fmt \in {"openai", "anthropic"}, n \in 1..MaxCalls :
       /\ Len(cHist) + n + 1 <= MaxHist
       /\ cNextId + n - 1 <= MaxIds
       /\ cHist' = cHist \o Exchange(fmt, cNextId, n)
       /\ cNextId' = cNextId + n
  /\ UNCHANGED <<cCfg, cOut, cCut, cCalls, exceptCompactor>>

\* history = compactor.compact(history); an IndexError leaves it as it was
CCompact ==
  /\ cHist # <<>>
  /\ \E summary \in SummaryLens \cup {0} :
       LET r == Compact(cHist, cCfg, summary) IN
         /\ cOut' = r.out
         /\ cHist' = r.hist
         /\ cCut' = r.cut
  /\ cCalls' = SummarizeCalls(cHist, cCfg)
  /\ UNCHANGED <<cCfg, cNextId, exceptCompactor>>

NextCompactor == CAppendText \/ CAppendExchange \/ CCompact


-----------------------------------------------------------------------------
(***************************************************************************)
(* Agent.chat (agent/core.py).  One agent, called sequentially.  The       *)
(* content of a message is carried as its length (what the compactor       *)
(* reads) and an id standing for the text.  chat is called without images. *)
(***************************************************************************)
MAX_TOOL_ITERATIONS == 10

\* len("I got stuck in a tool loop. Try rephrasing?")
StuckTextLen == 43

\* _trim_history(max_messages=40); the model runs with a smaller limit
MaxMessages == 6

MaxChats == 6
MaxToolCalls == 2

\* lengths of a user message, of the text of a response that carries tool
\* calls (0: empty text) and of the stripped text of a final response
UserChars == {6000}
RespChars == {0, 20}
FinalChars == {20}

NoRet == [kind |-> "none", chars |-> 0, id |-> 0]

\* the configuration cli.py, server.py and router.py build every compactor
\* with: CompactorConfig(model_name=...), here for model "gpt-4"
AgentCfg ==
  [keep_recent |-> DefaultKeepRecent, window |-> Gpt4Window,
   pct |-> DefaultThresholdPct]

ChatFresh ==
  /\ aHist = <<>>
  /\ aPc = "idle"
  /\ aIter = 0
  /\ aLastText = 0
  /\ aPending = FALSE
  /\ aFailed = FALSE
  /\ aSumCalls = 0
  /\ aLen0 = 0
  /\ aOut = "none"
  /\ aRet = NoRet
  /\ aChats = 0
  /\ aNextMsg = 1

ChatInit == aCompactor \in BOOLEAN /\ ChatFresh

\* the agent component at rest, for the other specifications
ChatIdle == aCompactor = FALSE /\ ChatFresh

\* a trim that keeps the oldest messages
TrimHistoryKeepingOldest(h) ==
  IF Len(h) > MaxMessages
  THEN [out |-> "trim", hist |-> SubSeq(h, 1, MaxMessages),
        cut |-> Len(h) - MaxMessages]
  ELSE [out |-> "unchanged", hist |-> h, cut |-> 0]

\* _trim_history
TrimHistory(h) ==
  IF Len(h) > MaxMessages
  THEN [out |-> "trim", hist |-> SubSeq(h, Len(h) - MaxMessages + 1, Len(h)),
        cut |-> Len(h) - MaxMessages]
  ELSE [out |-> "unchanged", hist |-> h, cut |-> 0]

\* _compact_or_trim
CompactOrTrim(h, compactor, summary) ==
  IF compactor THEN Compact(h, AgentCfg, summary) ELSE TrimHistory(h)

\* append the assistant turn, compact or trim, return
Commit(kind, chars, summary) ==
  LET h1 == Append(aHist, Turn("assistant", chars, aNextMsg))
      r  == CompactOrTrim(h1, aCompactor, summary)
  IN /\ aNextMsg' = aNextMsg + 1
     /\ aOut' = r.out
     /\ aHist' = r.hist
     /\ aSumCalls' = IF r.out \in {"summary", "recent"} THEN 1 ELSE 0
     /\ aPc' = IF r.out = "IndexError" THEN "raised" ELSE "returned"
     /\ aRet' = IF r.out = "IndexError" THEN NoRet
                ELSE [kind |-> kind, chars |-> chars, id |-> aNextMsg]

\* _execute_tool: what comes back for a tool call whose handler returns
\* ("ok"), raises ("raised") or is not registered ("unknown").  It is
\* always a string for the model; "exception" would be an exception
\* leaving _execute_tool.
ExecuteToolUncaught(outcome) ==
  CASE outcome = "ok" -> "result"
    [] outcome = "unknown" -> "Error: Unknown tool"
    [] outcome = "raised" -> "exception"

ExecuteTool(outcome) ==
  CASE outcome = "ok" -> "result"
    [] outcome = "unknown" -> "Error: Unknown tool"
    [] outcome = "raised" -> "Tool failed"

\* for iteration in range(self.MAX_TOOL_ITERATIONS)
LoopRunsOneMore(iter) == iter <= MAX_TOOL_ITERATIONS

LoopRuns(iter) == iter < MAX_TOOL_ITERATIONS

\* chat(): the user turn is appended and the working list built
ChatStart ==
  /\ aPc \in {"idle", "returned", "raised"}
  /\ aChats < MaxChats
  /\ \E n \in UserChars :
       aHist' = Append(aHist, Turn("user", n, aNextMsg))
  /\ aNextMsg' = aNextMsg + 1
  /\ aLen0' = Len(aHist)
  /\ aChats' = aChats + 1
  /\ aPc' = "loop"
  /\ aIter' = 0
  /\ aLastText' = 0
  /\ aPending' = FALSE
  /\ aFailed' = FALSE
  /\ aSumCalls' = 0
  /\ aOut' = "none"
  /\ aRet' = NoRet
  /\ UNCHANGED <<aCompactor, exceptChat>>

\* provider.chat returns a response without tool calls
ProviderFinal ==
  /\ aPc = "loop"
  /\ LoopRuns(aIter)
  /\ \E t \in FinalChars, summary \in SummaryLens \cup {0} :
       Commit("final", t, summary)
  /\ aIter' = aIter + 1
  /\ aPending' = FALSE
  /\ UNCHANGED <<aCompactor, aLastText, aFailed, aLen0, aChats, exceptChat>>

\* provider.chat returns n tool calls; each is executed by _execute_tool
\* and the assistant message and the n results are appended to the working
\* list, a local of the call; history is left alone
ProviderTools ==
  /\ aPc = "loop"
  /\ LoopRuns(aIter)
  /\ \E t \in RespChars, n \in 1..MaxToolCalls :
       \E outcome \in [1..n -> {"ok", "raised", "unknown"}] :
         LET res == [k \in 1..n |-> ExecuteTool(outcome[k])] IN
           /\ aLastText' = t
           /\ aPending' = (\E k \in 1..n : outcome[k] = "raised")
           /\ aFailed' = (aFailed \/ \E k \in 1..n : outcome[k] = "raised")
           /\ aPc' = IF \E k \in 1..n : res[k] = "exception"
                     THEN "raised" ELSE "loop"
  /\ aIter' = aIter + 1
  /\ UNCHANGED <<aCompactor, aHist, aSumCalls, aLen0, aOut, aRet, aChats,
                 aNextMsg, exceptChat>>

\* provider.chat is called with the working list and raises: the
\* exception leaves chat
ProviderRaises ==
  /\ aPc = "loop"
  /\ LoopRuns(aIter)
  /\ aIter' = aIter + 1
  /\ aPending' = FALSE
  /\ aPc' = "raised"
  /\ UNCHANGED <<aCompactor, aHist, aLastText, aFailed, aSumCalls, aLen0,
                 aOut, aRet, aChats, aNextMsg, exceptChat>>

\* the for loop ran out: the latest response text, or the stuck text
MaxIterations ==
  /\ aPc = "loop"
  /\ ~LoopRuns(aIter)
  /\ \E summary \in SummaryLens \cup {0} :
       Commit("fallback",
              IF aLastText > 0 THEN aLastText ELSE StuckTextLen, summary)
  /\ UNCHANGED <<aCompactor, aIter, aLastText, aPending, aFailed, aLen0,
                 aChats, exceptChat>>

NextChat ==
  ChatStart \/ ProviderFinal \/ ProviderTools \/ ProviderRaises
    \/ MaxIterations


-----------------------------------------------------------------------------
(***************************************************************************)
(* AgentPool (agent/router.py).  Keys are the strings get_agent builds;    *)
(* an agent instance is a number, the order of its construction.           *)
(***************************************************************************)
\* MAX_CACHE = 200 in the source; the model runs with a smaller cache
MAX_CACHE == 2

MaxAgents == 3
NThreads == 2
MaxRequests == 4

\* the agent names a pool is configured with, the names callers ask for
\* and the sender ids ("": no sender id, the CLI)
ConfigSets == {{"default", "a", "a:b"}, {"a"}}
Names == {"a", "a:b", "zz"}
Senders == {"", "b", "c"}

Pairs == [name : Names, sender : Senders]
Threads == 1..NThreads

\* name = "default" when name is not configured
ResolveName(name, configs) == IF name \in configs THEN name ELSE "default"

\* a key that leaves the sender out
KeyOfNameOnly(name, sender) == name

\* key = f"{name}:{sender_id}" if sender_id else name
KeyOf(name, sender) == IF sender # "" THEN name \o ":" \o sender ELSE name

PairKey(pair, configs) == KeyOf(ResolveName(pair.name, configs), pair.sender)

\* OrderedDict operations on a sequence of [key, inst], oldest first
\* a membership test that never finds the key
HasNever(d, k) == FALSE

\* key in self._agents
Has(d, k) == \E i \in 1..Len(d) : d[i].key = k

IndexOf(d, k) == CHOOSE i \in 1..Len(d) : d[i].key = k

Lookup(d, k) == d[IndexOf(d, k)].inst

Remove(d, k) ==
  LET i == IndexOf(d, k) IN SubSeq(d, 1, i - 1) \o SubSeq(d, i + 1, Len(d))

\* move_to_end(key) without the move
MoveToEndForgotten(d, k) == d

\* self._agents.move_to_end(key)
MoveToEnd(d, k) == Append(Remove(d, k), d[IndexOf(d, k)])

\* self._agents[key] = agent: a new key goes to the end, an existing key
\* keeps its place
SetItem(d, k, v) ==
  IF Has(d, k) THEN [d EXCEPT ![IndexOf(d, k)].inst = v]
  ELSE Append(d, [key |-> k, inst |-> v])

\* _evict_if_needed: popitem(last=False) while len > MAX_CACHE
RECURSIVE EvictIfNeeded(_)
EvictIfNeeded(d) ==
  IF Len(d) > MAX_CACHE THEN EvictIfNeeded(Tail(d)) ELSE d

KeysOf(d) == {d[i].key : i \in 1..Len(d)}

\* the recency order after a use of key k
Used(order, k) ==
  Append(SelectSeq(order, LAMBDA x : x # k), k)

NoCall ==
  [name |-> "", sender |-> "", key |-> "", inst |-> 0, created |-> FALSE,
   chatted |-> FALSE, error |-> "", before |-> <<>>, lru |-> "", prev |-> 0, evicted |-> {}]

PoolInit ==
  /\ pConfigs \in ConfigSets
  /\ pAgents = <<>>
  /\ pNext = 1
  /\ pTouched = [i \in 1..MaxAgents |-> {}]
  /\ pSeen = [p \in Pairs |-> 0]
  /\ pRecency = <<>>
  /\ pEvicted = {}
  /\ pLast = NoCall

PoolIdle ==
  /\ pConfigs = {"default"}
  /\ pAgents = <<>>
  /\ pNext = 1
  /\ pTouched = [i \in 1..MaxAgents |-> {}]
  /\ pSeen = [p \in Pairs |-> 0]
  /\ pRecency = <<>>
  /\ pEvicted = {}
  /\ pLast = NoCall

ThreadsIdle ==
  /\ tPc = [t \in Threads |-> "idle"]
  /\ tReq = [t \in Threads |-> [name |-> "", sender |-> "", key |-> ""]]
  /\ tNew = [t \in Threads |-> 0]
  /\ tRet = [t \in Threads |-> 0]
  /\ tStarted = 0

\* the bookkeeping of a call for pair that returned inst and left cache d
Seen(pair, inst, d) ==
  [p \in Pairs |->
     IF p = pair THEN inst
     ELSE IF PairKey(p, pConfigs) \in KeysOf(d) THEN pSeen[p] ELSE 0]

\* get_agent(name, sender_id), as one step; its caller has finished the
\* request before
GetAgent ==
  /\ pLast.inst # 0 => pLast.chatted
  /\ \E name \in Names, sender \in Senders :
    LET rname == ResolveName(name, pConfigs)
        key   == KeyOf(rname, sender)
        pair  == [name |-> name, sender |-> sender]
        call  == [NoCall EXCEPT !.name = name, !.sender = sender,
                                !.key = key, !.before = pAgents,
                                !.lru = IF pRecency = <<>> THEN ""
                                        ELSE Head(pRecency),
                                !.prev = pSeen[pair]]
    IN
    IF rname \notin pConfigs
    THEN \* raise ValueError("No 'default' agent configured")
      /\ pLast' = [call EXCEPT !.error = "ValueError"]
      /\ UNCHANGED <<pConfigs, pAgents, pNext, pTouched, pSeen, pRecency,
                     pEvicted, threadVars, exceptPool>>
    ELSE IF Has(pAgents, key)
    THEN \* hit: move_to_end, return the cached agent
      /\ pAgents' = MoveToEnd(pAgents, key)
      /\ pRecency' = Used(pRecency, key)
      /\ pSeen' = Seen(pair, Lookup(pAgents, key), pAgents)
      /\ pLast' = [call EXCEPT !.inst = Lookup(pAgents, key)]
      /\ UNCHANGED <<pConfigs, pNext, pTouched, pEvicted, threadVars,
                     exceptPool>>
    ELSE \* miss: construct, insert, evict
      /\ pNext <= MaxAgents
      /\ LET d == EvictIfNeeded(SetItem(pAgents, key, pNext)) IN
           /\ pAgents' = d
           /\ pRecency' = SelectSeq(Used(pRecency, key),
                                    LAMBDA x : x \in KeysOf(d))
           /\ pSeen' = Seen(pair, pNext, d)
           /\ pEvicted' = pEvicted \cup
                            ((KeysOf(pAgents) \cup {key}) \ KeysOf(d))
           /\ pLast' = [call EXCEPT !.inst = pNext, !.created = TRUE,
                                    !.evicted = (KeysOf(pAgents) \cup {key})
                                                  \ KeysOf(d)]
      /\ pNext' = pNext + 1
      /\ UNCHANGED <<pConfigs, pTouched, threadVars, exceptPool>>

\* the caller of the latest get_agent runs agent.chat on what it got: the
\* message of its (name, sender) goes into that instance's history
ChatOnAgent ==
  /\ pLast.inst # 0
  /\ ~pLast.chatted
  /\ LET pair == [name |-> pLast.name, sender |-> pLast.sender] IN
       pTouched' = [pTouched EXCEPT ![pLast.inst] = @ \cup {pair}]
  /\ pLast' = [pLast EXCEPT !.chatted = TRUE]
  /\ UNCHANGED <<pConfigs, pAgents, pNext, pSeen, pRecency, pEvicted,
                 threadVars, exceptPool>>

NextPool == GetAgent \/ ChatOnAgent

-----------------------------------------------------------------------------
(***************************************************************************)
(* get_agent called from parallel request threads (server.py:197 under     *)
(* Flask's threaded server, gateway/manager.py:336).  AgentPool has no     *)
(* lock: each statement of get_agent is a step, and the steps of           *)
(* different threads interleave.                                           *)
(***************************************************************************)
NoReq == [name |-> "", sender |-> "", key |-> ""]

\* a request thread enters get_agent(name, sender_id): lines 105-112
TBegin(t) ==
  /\ tPc[t] = "idle"
  /\ tStarted < MaxRequests
  /\ tStarted' = tStarted + 1
  /\ \E name \in Names, sender \in Senders :
       LET rname == ResolveName(name, pConfigs) IN
       /\ tReq' = [tReq EXCEPT ![t] = [name |-> name, sender |-> sender,
                                       key |-> KeyOf(rname, sender)]]
       /\ tPc' = [tPc EXCEPT ![t] = IF rname \in pConfigs THEN "check"
                                    ELSE "ValueError"]
  /\ tNew' = [tNew EXCEPT ![t] = 0]
  /\ tRet' = [tRet EXCEPT ![t] = 0]
  /\ UNCHANGED <<poolVars, exceptPool>>

\* if key in self._agents: line 114
TCheck(t) ==
  /\ tPc[t] = "check"
  /\ tPc' = [tPc EXCEPT ![t] = IF Has(pAgents, tReq[t].key) THEN "move"
                               ELSE "create"]
  /\ UNCHANGED <<tReq, tNew, tRet, tStarted, poolVars, exceptPool>>

\* self._agents.move_to_end(key): line 115; KeyError when the key has gone
TMove(t) ==
  /\ tPc[t] = "move"
  /\ IF Has(pAgents, tReq[t].key)
     THEN /\ pAgents' = MoveToEnd(pAgents, tReq[t].key)
          /\ tPc' = [tPc EXCEPT ![t] = "read"]
     ELSE /\ tPc' = [tPc EXCEPT ![t] = "KeyError"]
          /\ UNCHANGED pAgents
  /\ UNCHANGED <<tReq, tNew, tRet, tStarted, pConfigs, pNext, pTouched, pSeen,
                 pRecency, pEvicted, pLast, exceptPool>>

\* return self._agents[key]: line 116
TRead(t) ==
  /\ tPc[t] = "read"
  /\ IF Has(pAgents, tReq[t].key)
     THEN /\ tRet' = [tRet EXCEPT ![t] = Lookup(pAgents, tReq[t].key)]
          /\ tPc' = [tPc EXCEPT ![t] = "done"]
     ELSE /\ tPc' = [tPc EXCEPT ![t] = "KeyError"]
          /\ UNCHANGED tRet
  /\ UNCHANGED <<tReq, tNew, tStarted, poolVars, exceptPool>>

\* agent = self._create_agent(name): line 118
TCreate(t) ==
  /\ tPc[t] = "create"
  /\ pNext <= MaxAgents
  /\ tNew' = [tNew EXCEPT ![t] = pNext]
  /\ pNext' = pNext + 1
  /\ tPc' = [tPc EXCEPT ![t] = "insert"]
  /\ UNCHANGED <<tReq, tRet, tStarted, pConfigs, pAgents, pTouched, pSeen,
                 pRecency, pEvicted, pLast, exceptPool>>

\* self._agents[key] = agent: line 119
TInsert(t) ==
  /\ tPc[t] = "insert"
  /\ pAgents' = SetItem(pAgents, tReq[t].key, tNew[t])
  /\ tPc' = [tPc EXCEPT ![t] = "evict"]
  /\ UNCHANGED <<tReq, tNew, tRet, tStarted, pConfigs, pNext, pTouched, pSeen,
                 pRecency, pEvicted, pLast, exceptPool>>

\* one turn of the loop of _evict_if_needed (lines 209-211), then
\* return agent (line 120)
TEvict(t) ==
  /\ tPc[t] = "evict"
  /\ IF Len(pAgents) > MAX_CACHE
     THEN /\ pAgents' = Tail(pAgents)
          /\ pEvicted' = pEvicted \cup {Head(pAgents).key}
          /\ UNCHANGED <<tPc, tRet>>
     ELSE /\ tRet' = [tRet EXCEPT ![t] = tNew[t]]
          /\ tPc' = [tPc EXCEPT ![t] = "done"]
          /\ UNCHANGED <<pAgents, pEvicted>>
  /\ UNCHANGED <<tReq, tNew, tStarted, pConfigs, pNext, pTouched, pSeen,
                 pRecency, pLast, exceptPool>>

\* the request is over and the thread serves the next one
TFinish(t) ==
  /\ tPc[t] \in {"done", "KeyError", "ValueError"}
  /\ tPc' = [tPc EXCEPT ![t] = "idle"]
  /\ tReq' = [tReq EXCEPT ![t] = NoReq]
  /\ tNew' = [tNew EXCEPT ![t] = 0]
  /\ tRet' = [tRet EXCEPT ![t] = 0]
  /\ UNCHANGED <<tStarted, poolVars, exceptPool>>

NextPoolConc ==
  \E t \in Threads :
    \/ TBegin(t)
    \/ TCheck(t)
    \/ TMove(t)
    \/ TRead(t)
    \/ TCreate(t)
    \/ TInsert(t)
    \/ TEvict(t)
    \/ TFinish(t)

-----------------------------------------------------------------------------
(***************************************************************************)
(* Scheduler (agent/scheduler.py).  Times are whole minutes since the      *)
(* scheduler was constructed; a schedule is [kind, n]: "every" n minutes,  *)
(* one-shot "at" minute n of the day, or "bad" for a string no form of     *)
(* ScheduleParser.next_run matches.                                        *)
(***************************************************************************)
\* CHECK_INTERVAL = 60 seconds
CHECK_INTERVAL == 1

\* "max_failures": 3
DefaultMaxFailures == 3

\* min(2 ** failures, 60)
BackoffCap == 60

DayMinutes == 1440

MaxTime == 7
MaxJobs == 2

\* how many writes of the jobs file may raise in one run
MaxWriteFailures == 1

\* how many minutes agent.chat of a job may take
RunMinutes == {0, 1}

Schedules ==
  {[kind |-> "every", n |-> 0], [kind |-> "every", n |-> 1],
   [kind |-> "at", n |-> 2],
   [kind |-> "bad", n |-> 0]}

None == -1

\* ScheduleParser.next_run(schedule, now)
NextRun(schedule, now) ==
  IF schedule.kind = "every" THEN now + schedule.n
  ELSE IF schedule.kind = "at"
  THEN LET candidate == (now - (now % DayMinutes)) + schedule.n IN
       IF candidate <= now THEN candidate + DayMinutes ELSE candidate
  ELSE None

RECURSIVE Pow2(_)
Pow2(n) == IF n = 0 THEN 1 ELSE 2 * Pow2(n - 1)

\* the backoff computed from the count before its increment
BackoffOfOldCount(failures) ==
  IF Pow2(failures - 1) < BackoffCap THEN Pow2(failures - 1) ELSE BackoffCap

\* backoff_minutes = min(2 ** job["failures"], 60)
Backoff(failures) ==
  IF Pow2(failures) < BackoffCap THEN Pow2(failures) ELSE BackoffCap

\* a disabling test that lets one more failure through
ReachedMaxLate(failures, max) == failures > max

\* job["failures"] >= job.get("max_failures", 3)
ReachedMax(failures, max) == failures >= max

NoJob ==
  [schedule |-> [kind |-> "bad", n |-> 0], next_run |-> None,
   last_run |-> None, failures |-> 0, max_failures |-> 0, enabled |-> FALSE]

\* the job dict built by add_job
NewJob(schedule, next) ==
  [schedule |-> schedule, next_run |-> next, last_run |-> None,
   failures |-> 0, max_failures |-> DefaultMaxFailures, enabled |-> TRUE]

JobIds == 1..MaxJobs

NoExec == [job |-> 0, ok |-> FALSE, again |-> FALSE, started |-> 0,
           at |-> 0, before |-> NoJob, after |-> NoJob]

\* the keys of a dict in insertion order: ids are handed out in
\* increasing order
RECURSIVE InOrder(_)
InOrder(ids) ==
  IF ids = {} THEN <<>>
  ELSE LET least == CHOOSE i \in ids : \A k \in ids : i <= k
       IN <<least>> \o InOrder(ids \ {least})

\* what _save_jobs writes
Saved(jobs, ids) == [ids |-> ids, jobs |-> [i \in JobIds |->
                       IF i \in ids THEN jobs[i] ELSE NoJob]]

SchedInit ==
  /\ sClock = 0
  /\ sRunning = FALSE
  /\ sPc = "none"
  /\ sWake = 0
  /\ sTickNow = 0
  /\ sSnap = <<>>
  /\ sJobs = [i \in JobIds |-> NoJob]
  /\ sIn = {}
  /\ sNextJob = 1
  /\ sFile = Saved([i \in JobIds |-> NoJob], {})
  /\ sDue = {}
  /\ sAttempted = {}
  /\ sTickEnd = "none"
  /\ sMissed = {}
  /\ sRow = [i \in JobIds |-> 0]
  /\ sWon = {}
  /\ sWriteFails = 0
  /\ sExec = NoExec

SchedIdle == SchedInit

\* Scheduler.start
Start ==
  /\ ~sRunning
  /\ sRunning' = TRUE
  /\ sPc' = "sleep"
  /\ sWake' = sClock
  /\ UNCHANGED <<sClock, sTickNow, sSnap, sJobs, sIn, sNextJob, sFile, sDue,
                 sAttempted, sTickEnd, sMissed, sRow, sWriteFails, sWon,
                 sExec, exceptSched>>

\* time passes while the timer thread is not started or asleep; the
\* thread wakes when its sleep ends
ClockTick ==
  /\ sClock < MaxTime
  /\ sPc = "none" \/ (sPc = "sleep" /\ sClock < sWake)
  /\ sClock' = sClock + 1
  /\ UNCHANGED <<sRunning, sPc, sWake, sTickNow, sSnap, sJobs, sIn, sNextJob,
                 sFile, sDue, sAttempted, sTickEnd, sMissed, sRow,
                 sWriteFails, sWon, sExec, exceptSched>>

\* Scheduler.add_job; _save_jobs writes the file or raises
AddJob ==
  \E schedule \in Schedules, saved \in BOOLEAN :
    LET next == NextRun(schedule, sClock) IN
    /\ sNextJob <= MaxJobs
    /\ next # None
    /\ sJobs' = [sJobs EXCEPT ![sNextJob] = NewJob(schedule, next)]
    /\ sIn' = sIn \cup {sNextJob}
    /\ sNextJob' = sNextJob + 1
    /\ sFile' = IF saved THEN Saved(sJobs', sIn') ELSE sFile
    /\ saved \/ sWriteFails < MaxWriteFailures
    /\ sWriteFails' = IF saved THEN sWriteFails ELSE sWriteFails + 1
    /\ UNCHANGED <<sClock, sRunning, sPc, sWake, sTickNow, sSnap, sDue,
                   sAttempted, sTickEnd, sMissed, sRow, sWon, sExec,
                   exceptSched>>

\* the job dicts still referenced: those of the dict and those of the
\* snapshot _check_jobs is iterating over
Referenced(jobs, ids, snap) ==
  [i \in JobIds |->
     IF i \in ids \/ (\E k \in 1..Len(snap) : snap[k] = i) THEN jobs[i]
     ELSE NoJob]

\* Scheduler.remove_job of a stored job
RemoveJob ==
  \E id \in sIn, saved \in BOOLEAN :
    /\ sIn' = sIn \ {id}
    /\ sJobs' = Referenced(sJobs, sIn', sSnap)
    /\ sFile' = IF saved THEN Saved(sJobs, sIn') ELSE sFile
    /\ saved \/ sWriteFails < MaxWriteFailures
    /\ sWriteFails' = IF saved THEN sWriteFails ELSE sWriteFails + 1
    /\ UNCHANGED <<sClock, sRunning, sPc, sWake, sTickNow, sSnap, sNextJob,
                   sDue, sAttempted, sTickEnd, sMissed, sRow, sWon, sExec,
                   exceptSched>>

\* _loop wakes and _check_jobs begins: now and the snapshot are taken
CheckStart ==
  /\ sPc = "sleep"
  /\ sRunning
  /\ sClock >= sWake
  /\ sPc' = "check"
  /\ sTickNow' = sClock
  /\ sSnap' = InOrder(sIn)
  /\ sDue' = {i \in sIn : sJobs[i].enabled /\ sJobs[i].next_run # None
                           /\ sJobs[i].next_run <= sClock}
  /\ sAttempted' = {}
  /\ UNCHANGED <<sClock, sRunning, sWake, sJobs, sIn, sNextJob, sFile,
                 sTickEnd, sMissed, sRow, sWriteFails, sWon, sExec,
                 exceptSched>>

\* whether _check_jobs calls _execute_job for the job
IsDue(job, now) ==
  /\ job.enabled
  /\ job.next_run # None
  /\ now >= job.next_run

\* _check_jobs passes over a job that is disabled or not due
SkipJob ==
  /\ sPc = "check"
  /\ sSnap # <<>>
  /\ ~IsDue(sJobs[Head(sSnap)], sTickNow)
  /\ sSnap' = Tail(sSnap)
  /\ UNCHANGED <<sClock, sRunning, sPc, sWake, sTickNow, sJobs, sIn, sNextJob,
                 sFile, sDue, sAttempted, sTickEnd, sMissed, sRow,
                 sWriteFails, sWon, sExec, exceptSched>>

\* a successful run that leaves a one-shot job enabled
AfterSuccessStaysEnabled(job, now) ==
  IF job.schedule.kind = "at"
  THEN [job EXCEPT !.last_run = now, !.failures = 0]
  ELSE [job EXCEPT !.last_run = now, !.failures = 0,
                   !.next_run = NextRun(job.schedule, now)]

\* a successful run that leaves next_run as it was
AfterSuccessKeepsNextRun(job, now) ==
  IF job.schedule.kind = "at"
  THEN [job EXCEPT !.last_run = now, !.failures = 0, !.enabled = FALSE]
  ELSE [job EXCEPT !.last_run = now, !.failures = 0]

\* the job dict after a successful run (lines 299-307)
AfterSuccess(job, now) ==
  IF job.schedule.kind = "at"
  THEN [job EXCEPT !.last_run = now, !.failures = 0, !.enabled = FALSE]
  ELSE [job EXCEPT !.last_run = now, !.failures = 0,
                   !.next_run = NextRun(job.schedule, now)]

\* the job dict after a failed run (lines 309-321)
AfterFailure(job, now) ==
  LET failures == job.failures + 1 IN
  [job EXCEPT !.failures = failures,
              !.last_run = now,
              !.next_run = now + Backoff(failures),
              !.enabled = IF ReachedMax(failures, job.max_failures)
                          THEN FALSE ELSE job.enabled]

\* _check_jobs calls _execute_job for a due job: the run takes some time
\* and succeeds or raises, then _save_jobs writes the file or raises; a raise of
\* _save_jobs leaves _check_jobs and is logged by _loop, which sleeps
ExecuteJob ==
  \E ok \in BOOLEAN, saved \in BOOLEAN, took \in RunMinutes :
    LET id    == Head(sSnap)
        job   == sJobs[id]
        now   == sClock + took
        after == IF ok THEN AfterSuccess(job, now)
                 ELSE AfterFailure(job, now)
    IN
    /\ sPc = "check"
    /\ sSnap # <<>>
    /\ IsDue(job, sTickNow)
    /\ now <= MaxTime
    /\ sClock' = now
    /\ sRow' = [sRow EXCEPT ![id] = IF ok THEN 0 ELSE @ + 1]
    /\ saved \/ sWriteFails < MaxWriteFailures
    /\ sWriteFails' = IF saved THEN sWriteFails ELSE sWriteFails + 1
    /\ sWon' = IF ok THEN sWon \cup {id} ELSE sWon
    /\ sExec' = [job |-> id, ok |-> ok, again |-> id \in sWon,
                 started |-> sClock, at |-> now, before |-> job,
                 after |-> after]
    /\ IF saved
       THEN /\ sJobs' = [sJobs EXCEPT ![id] = after]
            /\ sFile' = Saved(sJobs', sIn)
            /\ sSnap' = Tail(sSnap)
            /\ sAttempted' = sAttempted \cup {id}
            /\ UNCHANGED <<sPc, sWake, sTickEnd, sMissed, sDue>>
       ELSE /\ sJobs' = Referenced([sJobs EXCEPT ![id] = after], sIn, <<>>)
            /\ sPc' = "sleep"
            /\ sWake' = now + CHECK_INTERVAL
            /\ sTickEnd' = "raised"
            /\ sMissed' = sDue \ (sAttempted \cup {id})
            /\ sSnap' = <<>>
            /\ sDue' = {}
            /\ sAttempted' = {}
            /\ UNCHANGED sFile
    /\ UNCHANGED <<sRunning, sTickNow, sIn, sNextJob, exceptSched>>

\* _check_jobs returns and _loop sleeps CHECK_INTERVAL
CheckEnd ==
  /\ sPc = "check"
  /\ sSnap = <<>>
  /\ sPc' = "sleep"
  /\ sWake' = sClock + CHECK_INTERVAL
  /\ sTickEnd' = "returned"
  /\ sMissed' = sDue \ sAttempted
  /\ sDue' = {}
  /\ sAttempted' = {}
  /\ sJobs' = Referenced(sJobs, sIn, <<>>)
  /\ UNCHANGED <<sClock, sRunning, sTickNow, sSnap, sIn, sNextJob, sFile,
                 sRow, sWriteFails, sWon, sExec, exceptSched>>

NextSched ==
  \/ Start
  \/ ClockTick
  \/ AddJob
  \/ RemoveJob
  \/ CheckStart
  \/ SkipJob
  \/ ExecuteJob
  \/ CheckEnd

-----------------------------------------------------------------------------
(***************************************************************************)
(* Scheduler objects and timer threads of one process: init_scheduler,     *)
(* Scheduler.start, Scheduler.stop and Scheduler._loop.  The jobs file     *)
(* holds one job that is due; every Scheduler loads its own copy of it.    *)
(***************************************************************************)
MaxSchedulers == 2
MaxLoops == 3

SchedulerIds == 1..MaxSchedulers
LoopIds == 1..MaxLoops

TimersInit ==
  /\ gScheduler = 0
  /\ oMade = 0
  /\ oRunning = [o \in SchedulerIds |-> FALSE]
  /\ oThread = [o \in SchedulerIds |-> 0]
  /\ oDue = [o \in SchedulerIds |-> FALSE]
  /\ lMade = 0
  /\ lObj = [t \in LoopIds |-> 0]
  /\ lPc = [t \in LoopIds |-> "none"]
  /\ lExecuted = 0

TimersIdle == TimersInit

\* init_scheduler: a new Scheduler (which loads the jobs file) replaces
\* _scheduler and is started; the Scheduler it replaces is left as it is
InitScheduler ==
  /\ oMade < MaxSchedulers
  /\ lMade < MaxLoops
  /\ oMade' = oMade + 1
  /\ gScheduler' = oMade + 1
  /\ oDue' = [oDue EXCEPT ![oMade + 1] = TRUE]
  /\ oRunning' = [oRunning EXCEPT ![oMade + 1] = TRUE]
  /\ lMade' = lMade + 1
  /\ oThread' = [oThread EXCEPT ![oMade + 1] = lMade + 1]
  /\ lObj' = [lObj EXCEPT ![lMade + 1] = oMade + 1]
  /\ lPc' = [lPc EXCEPT ![lMade + 1] = "test"]
  /\ UNCHANGED <<lExecuted, exceptTimers>>

\* Scheduler.start on a Scheduler that is not running: a new thread
StartAgain ==
  \E o \in 1..oMade :
    /\ ~oRunning[o]
    /\ lMade < MaxLoops
    /\ oRunning' = [oRunning EXCEPT ![o] = TRUE]
    /\ lMade' = lMade + 1
    /\ oThread' = [oThread EXCEPT ![o] = lMade + 1]
    /\ lObj' = [lObj EXCEPT ![lMade + 1] = o]
    /\ lPc' = [lPc EXCEPT ![lMade + 1] = "test"]
    /\ UNCHANGED <<gScheduler, oMade, oDue, lExecuted, exceptTimers>>

\* Scheduler.stop: _running = False, then join(timeout=5) returns whether
\* or not the thread has ended
Stop ==
  \E o \in 1..oMade :
    /\ oRunning[o]
    /\ oRunning' = [oRunning EXCEPT ![o] = FALSE]
    /\ UNCHANGED <<gScheduler, oMade, oThread, oDue, lMade, lObj, lPc,
                   lExecuted, exceptTimers>>

\* _loop: while self._running
LoopTest(t) ==
  /\ lPc[t] = "test"
  /\ lPc' = [lPc EXCEPT ![t] = IF oRunning[lObj[t]] THEN "check"
                               ELSE "exited"]
  /\ UNCHANGED <<gScheduler, oMade, oRunning, oThread, oDue, lMade, lObj,
                 lExecuted, exceptTimers>>

\* _check_jobs: the job is due and _execute_job is entered, or nothing is
\* due and _loop sleeps
LoopCheck(t) ==
  /\ lPc[t] = "check"
  /\ lPc' = [lPc EXCEPT ![t] = IF oDue[lObj[t]] THEN "run" ELSE "sleep"]
  /\ UNCHANGED <<gScheduler, oMade, oRunning, oThread, oDue, lMade, lObj,
                 lExecuted, exceptTimers>>

\* _execute_job ends: the job has run and its next_run is rewritten
LoopRun(t) ==
  /\ lPc[t] = "run"
  /\ oDue' = [oDue EXCEPT ![lObj[t]] = FALSE]
  /\ lExecuted' = lExecuted + 1
  /\ lPc' = [lPc EXCEPT ![t] = "sleep"]
  /\ UNCHANGED <<gScheduler, oMade, oRunning, oThread, lMade, lObj,
                 exceptTimers>>

\* time.sleep(CHECK_INTERVAL) is over
LoopWake(t) ==
  /\ lPc[t] = "sleep"
  /\ lPc' = [lPc EXCEPT ![t] = "test"]
  /\ UNCHANGED <<gScheduler, oMade, oRunning, oThread, oDue, lMade, lObj,
                 lExecuted, exceptTimers>>

NextTimers ==
  \/ InitScheduler
  \/ StartAgain
  \/ Stop
  \/ \E t \in LoopIds : LoopTest(t)
  \/ \E t \in LoopIds : LoopCheck(t)
  \/ \E t \in LoopIds : LoopRun(t)
  \/ \E t \in LoopIds : LoopWake(t)

-----------------------------------------------------------------------------
(***************************************************************************)
(* The jobs file.  add_job and remove_job (request threads) and            *)
(* _execute_job (the timer thread) change Scheduler._jobs and call         *)
(* _save_jobs, which serialises the jobs and then rewrites the file with   *)
(* Path.write_text: the file is opened for writing, which empties it, and  *)
(* the text is written.  The threads take no lock.                         *)
(***************************************************************************)
MaxWriters == 2
MaxFileJobs == 2

Writers == 1..MaxWriters

EmptyFile == [complete |-> TRUE, jobs |-> {}]

FileInit ==
  /\ fMem = {}
  /\ fFile = EmptyFile
  /\ fNext = 1
  /\ fCrashed = FALSE
  /\ wPc = [w \in Writers |-> "idle"]
  /\ wDump = [w \in Writers |-> {}]

FileIdle == FileInit

\* add_job: self._jobs[job["id"]] = job, then _save_jobs
WAdd(w) ==
  /\ ~fCrashed
  /\ wPc[w] = "idle"
  /\ fNext <= MaxFileJobs
  /\ fMem' = fMem \cup {fNext}
  /\ fNext' = fNext + 1
  /\ wPc' = [wPc EXCEPT ![w] = "dump"]
  /\ UNCHANGED <<fFile, fCrashed, wDump, exceptFile>>

\* remove_job: del self._jobs[job_id], then _save_jobs
WRemove(w) ==
  /\ ~fCrashed
  /\ wPc[w] = "idle"
  /\ \E id \in fMem : fMem' = fMem \ {id}
  /\ wPc' = [wPc EXCEPT ![w] = "dump"]
  /\ UNCHANGED <<fFile, fNext, fCrashed, wDump, exceptFile>>

\* _execute_job on the timer thread: the fields of a job change, the set of
\* jobs does not, then _save_jobs
WExecuted(w) ==
  /\ ~fCrashed
  /\ wPc[w] = "idle"
  /\ fMem # {}
  /\ wPc' = [wPc EXCEPT ![w] = "dump"]
  /\ UNCHANGED <<fMem, fFile, fNext, fCrashed, wDump, exceptFile>>

\* _save_jobs: json.dumps(list(self._jobs.values()), ...)
WDump(w) ==
  /\ ~fCrashed
  /\ wPc[w] = "dump"
  /\ wDump' = [wDump EXCEPT ![w] = fMem]
  /\ wPc' = [wPc EXCEPT ![w] = "open"]
  /\ UNCHANGED <<fMem, fFile, fNext, fCrashed, exceptFile>>

\* write_text opens the file for writing: the file is emptied
WOpen(w) ==
  /\ ~fCrashed
  /\ wPc[w] = "open"
  /\ fFile' = [complete |-> FALSE, jobs |-> {}]
  /\ wPc' = [wPc EXCEPT ![w] = "write"]
  /\ UNCHANGED <<fMem, fNext, fCrashed, wDump, exceptFile>>

\* write_text writes the text and closes; _save_jobs and its caller return
WWrite(w) ==
  /\ ~fCrashed
  /\ wPc[w] = "write"
  /\ fFile' = [complete |-> TRUE, jobs |-> wDump[w]]
  /\ wPc' = [wPc EXCEPT ![w] = "idle"]
  /\ UNCHANGED <<fMem, fNext, fCrashed, wDump, exceptFile>>

\* the process dies; the file stays as it is
Crash ==
  /\ ~fCrashed
  /\ fCrashed' = TRUE
  /\ UNCHANGED <<fMem, fFile, fNext, wPc, wDump, exceptFile>>

NextFile ==
  \/ \E w \in Writers : WAdd(w)
  \/ \E w \in Writers : WRemove(w)
  \/ \E w \in Writers : WExecuted(w)
  \/ \E w \in Writers : WDump(w)
  \/ \E w \in Writers : WOpen(w)
  \/ \E w \in Writers : WWrite(w)
  \/ Crash

-----------------------------------------------------------------------------
(***************************************************************************)
(* Loading the jobs file at startup (Scheduler._load_jobs).  The file      *)
(* holds a JSON array; a record is a whole job, a job dict that has its    *)
(* "id" but lacks other fields, a dict with no "id", or a value that is    *)
(* not a dict.                                                             *)
(***************************************************************************)
MaxRecords == 3
RecordIds == {1, 2}

Records ==
  [kind : {"job", "partial"}, id : RecordIds]
    \cup {[kind |-> "noid", id |-> 0], [kind |-> "text", id |-> 0]}

FileContents == UNION {[1..n -> Records] : n \in 0..MaxRecords}

\* j["id"] raises KeyError on a dict without the key and TypeError on a
\* value that is not a dict
IdRaises(rec) == rec.kind \in {"noid", "text"}

\* {j["id"]: j for j in data} inside the try: one raising record abandons
\* the whole comprehension and _load_jobs returns {}; of two records with
\* one id the later stays
LoadJobs(data) ==
  IF \E k \in 1..Len(data) : IdRaises(data[k]) THEN {}
  ELSE {data[k] : k \in {k1 \in 1..Len(data) :
          \A k2 \in (k1 + 1)..Len(data) : data[k2].id # data[k1].id}}

LoadInit ==
  /\ dFile \in FileContents
  /\ dJobs = {}
  /\ dWarned = FALSE
  /\ dPc = "new"

LoadIdle ==
  /\ dFile = <<>>
  /\ dJobs = {}
  /\ dWarned = FALSE
  /\ dPc = "new"

\* Scheduler.__init__: self._jobs = self._load_jobs()
LoadAtStartup ==
  /\ dPc = "new"
  /\ dJobs' = LoadJobs(dFile)
  /\ dWarned' = \E k \in 1..Len(dFile) : IdRaises(dFile[k])
  /\ dPc' = "loaded"
  /\ UNCHANGED <<dFile, exceptLoad>>

NextLoad == LoadAtStartup

-----------------------------------------------------------------------------
(***************************************************************************)
(* The ceiling on scheduled jobs.  cron_add, the tool function, tests      *)
(* len(scheduler.list_jobs()) and then calls Scheduler.add_job; the        *)
(* outreach orchestrator calls Scheduler.add_job itself.  The callers run  *)
(* on request threads.                                                     *)
(***************************************************************************)
MAX_CRON_JOBS == 2
MaxCallers == 2
MaxOutreachJobs == 2

Callers == 1..MaxCallers

CapInit ==
  /\ kJobs = 0
  /\ kFile = 0
  /\ kOutreach = 0
  /\ kPc = [c \in Callers |-> "idle"]
  /\ kRet = [c \in Callers |-> "none"]

CapIdle == CapInit

\* cron_add: if len(scheduler.list_jobs()) >= _MAX_CRON_JOBS: return error
CronAddCheck(c) ==
  /\ kPc[c] = "idle"
  /\ IF kJobs >= MAX_CRON_JOBS
     THEN /\ kRet' = [kRet EXCEPT ![c] = "maximum"]
          /\ UNCHANGED kPc
     ELSE /\ kPc' = [kPc EXCEPT ![c] = "add"]
          /\ kRet' = [kRet EXCEPT ![c] = "none"]
  /\ UNCHANGED <<kJobs, kFile, kOutreach, exceptCap>>

\* cron_add: job = scheduler.add_job(...), which stores and saves the job
CronAddJob(c) ==
  /\ kPc[c] = "add"
  /\ kJobs' = kJobs + 1
  /\ kFile' = kJobs + 1
  /\ kPc' = [kPc EXCEPT ![c] = "idle"]
  /\ kRet' = [kRet EXCEPT ![c] = "scheduled"]
  /\ UNCHANGED <<kOutreach, exceptCap>>

\* OutreachOrchestrator._ensure_jobs_scheduled: scheduler.add_job of a job
\* whose query is not scheduled yet
OutreachAddJob ==
  /\ kOutreach < MaxOutreachJobs
  /\ kOutreach' = kOutreach + 1
  /\ kJobs' = kJobs + 1
  /\ kFile' = kJobs + 1
  /\ UNCHANGED <<kPc, kRet, exceptCap>>

\* cron_remove of a job added by cron_add
CronRemove ==
  /\ kJobs > kOutreach
  /\ kJobs' = kJobs - 1
  /\ kFile' = kJobs - 1
  /\ UNCHANGED <<kOutreach, kPc, kRet, exceptCap>>

NextCap ==
  \/ \E c \in Callers : CronAddCheck(c)
  \/ \E c \in Callers : CronAddJob(c)
  \/ OutreachAddJob
  \/ CronRemove

-----------------------------------------------------------------------------
(***************************************************************************)
(* Delivery of a job's result (Scheduler._deliver_result) through          *)
(* GatewayManager.send_proactive or to a file under results/.              *)
(***************************************************************************)
\* job["channel"]: none, a value of ChannelType, a value ChannelType(...)
\* rejects with ValueError
ChannelNames == {"", "telegram", "bogus"}
Recipients == {"", "r"}
\* what channel.send_message does: returns success, returns
\* {"success": False, ...}, or raises
SendOutcomes == {"sent", "refused", "raises"}

Gateways == [present : BOOLEAN, configured : BOOLEAN, send : SendOutcomes]

\* GatewayManager.send_proactive: "sent", "refused" (a dict with
\* success False is returned) or "raises"
SendProactive(gateway) ==
  IF ~gateway.configured THEN "refused" ELSE gateway.send

\* _deliver_result: "delivered", "file" (_save_result_to_file ran) or
\* "dropped" (send_proactive returned without raising and without sending)
Deliver(job, gateway) ==
  IF job.channel # "" /\ job.recipient # "" /\ gateway.present
  THEN IF job.channel = "bogus" THEN "file"
       ELSE IF SendProactive(gateway) = "sent" THEN "delivered"
       ELSE IF SendProactive(gateway) = "raises" THEN "file"
       ELSE "dropped"
  ELSE "file"

DeliverInit ==
  /\ vJob \in [channel : ChannelNames, recipient : Recipients]
  /\ vGateway \in Gateways
  /\ vPc = "ran"
  /\ vResult = "none"

DeliverIdle ==
  /\ vJob = [channel |-> "", recipient |-> ""]
  /\ vGateway = [present |-> FALSE, configured |-> FALSE, send |-> "sent"]
  /\ vPc = "ran"
  /\ vResult = "none"

\* _execute_job after a successful agent.chat: self._deliver_result(job, r)
DeliverResult ==
  /\ vPc = "ran"
  /\ vResult' = Deliver(vJob, vGateway)
  /\ vPc' = "done"
  /\ UNCHANGED <<vJob, vGateway, exceptDeliver>>

NextDeliver == DeliverResult

-----------------------------------------------------------------------------
(***************************************************************************)
(* ScheduleParser.next_run.  A time is a number of whole minutes since     *)
(* 2026-01-01 00:00 UTC, a Thursday.  A schedule is the string next_run    *)
(* matches, reduced to the groups its regular expressions capture:         *)
(*   [kind |-> "every", n, unit]      "every 6h", "every 30m", "every 2d"  *)
(*   [kind |-> "daily", h, m]         "every day at 9am"                   *)
(*   [kind |-> "weekday", day, h, m]  "every monday [at 5pm]", Monday = 0  *)
(*   [kind |-> "at", h, m]            "at 09:00"                           *)
(*   [kind |-> "cron", f]             "cron 0 */6 * * *", f the 5 fields   *)
(*   [kind |-> "bad"]                 anything else                        *)
(***************************************************************************)
HourMinutes == 60
WeekDays == 7
StartDay == 46
MaxDays == 7
CronScanDays == 8

MonthLengths == <<31, 28, 31, 30, 31, 30, 31, 31, 30, 31, 30, 31>>

DayOf(t) == t \div DayMinutes
DayStart(t) == t - (t % DayMinutes)
HourOf(t) == (t % DayMinutes) \div HourMinutes
MinuteOf(t) == t % HourMinutes

\* datetime.weekday(): Monday is 0, Sunday is 6
Weekday(t) == (DayOf(t) + 3) % WeekDays

\* datetime.month and datetime.day of the day with index d of 2026
RECURSIVE MonthFrom(_, _)
MonthFrom(d, mon) ==
  IF mon = 12 \/ d < MonthLengths[mon] THEN mon
  ELSE MonthFrom(d - MonthLengths[mon], mon + 1)

RECURSIVE DayFrom(_, _)
DayFrom(d, mon) ==
  IF mon = 12 \/ d < MonthLengths[mon] THEN d + 1
  ELSE DayFrom(d - MonthLengths[mon], mon + 1)

MonthOf(t) == MonthFrom(DayOf(t), 1)
DayOfMonth(t) == DayFrom(DayOf(t), 1)

\* a cron field: "*", "a/step" or "*/step", "a-b", "a,b", "a"
Star == [kind |-> "star", a |-> 0, b |-> 0]
Step(base, step) == [kind |-> "step", a |-> base, b |-> step]
StarStep(step) == [kind |-> "starstep", a |-> 0, b |-> step]
Range(a, b) == [kind |-> "range", a |-> a, b |-> b]
Pair(a, b) == [kind |-> "list", a |-> a, b |-> b]
Value(a) == [kind |-> "value", a |-> a, b |-> 0]

\* expand(field_str, lo, hi) of _next_cron
Expand(field, lo, hi) ==
  IF field.kind = "star" THEN lo..hi
  ELSE IF field.kind = "starstep"
  THEN {v \in lo..hi : (v - lo) % field.b = 0}
  ELSE IF field.kind = "step"
  THEN {v \in field.a..hi : (v - field.a) % field.b = 0}
  ELSE IF field.kind = "range" THEN field.a..field.b
  ELSE IF field.kind = "list" THEN {field.a, field.b}
  ELSE {field.a}

\* the test of the scan of _next_cron on one candidate
CronMatches(f, t) ==
  /\ MinuteOf(t) \in Expand(f[1], 0, 59)
  /\ HourOf(t) \in Expand(f[2], 0, 23)
  /\ DayOfMonth(t) \in Expand(f[3], 1, 31)
  /\ MonthOf(t) \in Expand(f[4], 1, 12)
  /\ Weekday(t) \in Expand(f[5], 0, 6)

\* the minutes _next_cron scans: from now + 1 minute on
CronWindow(now) == (now + 1)..(now + CronScanDays * DayMinutes)

Least(S) == CHOOSE t \in S : \A u \in S : t <= u

\* _next_cron(cron_expr, now): the first candidate of the scan that matches
NextCron(f, now) ==
  LET hits == {t \in CronWindow(now) : CronMatches(f, t)} IN
  IF hits = {} THEN None ELSE Least(hits)

UnitMinutes(unit) ==
  IF unit = "m" THEN 1 ELSE IF unit = "h" THEN HourMinutes ELSE DayMinutes

\* next_run left by an exception: datetime.replace raises ValueError on an
\* hour above 23 or a minute above 59, and target_time[0] raises TypeError
\* when _parse_time returned None
Raised == -2

\* _parse_time(time_str): a pair of numbers of one or two digits, taken
\* as they are, or None (h = None) for a text it does not match
TimeInRange(s) == s.h <= 23 /\ s.m <= 59

\* ScheduleParser.next_run(schedule, from_time)
ScheduleParserNextRun(s, now) ==
  IF s.kind = "every" THEN now + s.n * UnitMinutes(s.unit)
  ELSE IF s.kind \in {"daily", "at"}
  THEN IF s.h = None THEN None
       ELSE IF ~TimeInRange(s) THEN Raised
       ELSE LET candidate == DayStart(now) + s.h * HourMinutes + s.m IN
            IF candidate <= now THEN candidate + DayMinutes ELSE candidate
  ELSE IF s.kind = "weekday"
  THEN IF s.h = None \/ ~TimeInRange(s) THEN Raised
       ELSE LET d0 == s.day - Weekday(now)
                days_ahead == IF d0 <= 0 THEN d0 + WeekDays ELSE d0
            IN DayStart(now) + s.h * HourMinutes + s.m
                 + days_ahead * DayMinutes
  ELSE IF s.kind = "cron" THEN NextCron(s.f, now)
  ELSE None

Every(n, unit) == [kind |-> "every", n |-> n, unit |-> unit]
Timed(kind, h, m) == [kind |-> kind, h |-> h, m |-> m]
OnWeekday(day, h, m) == [kind |-> "weekday", day |-> day, h |-> h, m |-> m]
Cron(f) == [kind |-> "cron", f |-> f]

CronExprs ==
  { <<Value(0), StarStep(6), Star, Star, Star>>,
    <<Value(0), Value(9), Star, Star, Value(0)>>,
    <<Value(30), Value(17), Star, Star, Range(1, 5)>>,
    <<Value(0), Value(0), Value(1), Star, Star>>,
    <<Pair(15, 45), Step(8, 4), Star, Value(2), Star>>,
    <<Value(0), Value(0), Value(31), Value(2), Star>> }

ParseSchedules ==
  {Every(n, u) : n \in {0, 1, 6}, u \in {"m", "h", "d"}}
    \cup {Timed(k, 9, 0) : k \in {"daily", "at"}}
    \cup {Timed(k, 17, 30) : k \in {"daily", "at"}}
    \cup {OnWeekday(d, 9, 0) : d \in {0, 3, 6}}
    \cup {OnWeekday(d, 17, 30) : d \in {0, 6}}
    \cup {Timed("at", 25, 0), Timed("daily", 9, 60), Timed("at", None, 0),
          OnWeekday(0, None, 0)}
    \cup {Cron(f) : f \in CronExprs}
    \cup {[kind |-> "bad"]}

ParseTimes ==
  {d * DayMinutes + m : d \in StartDay..(StartDay + MaxDays - 1),
                        m \in {0, 539, 540, 720, 1050, 1439}}

ParseInit ==
  /\ nSchedule \in ParseSchedules
  /\ nNow \in ParseTimes
  /\ nOut = None
  /\ nPc = "new"

ParseIdle ==
  /\ nSchedule = [kind |-> "bad"]
  /\ nNow = 0
  /\ nOut = None
  /\ nPc = "new"

\* next_run of a schedule that is not a cron expression
ParseNatural ==
  /\ nPc = "new"
  /\ nSchedule.kind # "cron"
  /\ nOut' = ScheduleParserNextRun(nSchedule, nNow)
  /\ nPc' = "parsed"
  /\ UNCHANGED <<nSchedule, nNow, exceptParse>>

\* next_run of "cron <5 fields>"
ParseCron ==
  /\ nPc = "new"
  /\ nSchedule.kind = "cron"
  /\ nOut' = ScheduleParserNextRun(nSchedule, nNow)
  /\ nPc' = "parsed"
  /\ UNCHANGED <<nSchedule, nNow, exceptParse>>

NextParse == ParseNatural \/ ParseCron

-----------------------------------------------------------------------------
(***************************************************************************)
(* The shell tools (tools/terminal.py): run_command and run_background.    *)
(* A command is reduced to what the searches of check_command_safety find  *)
(* in it: a destructive pattern in the raw text, in the normalised text,   *)
(* in a segment of a chain, or in a $( ) or backtick substitution.         *)
(***************************************************************************)
MAX_BACKGROUND_PROCESSES == 1

Commands == [raw : BOOLEAN, normalized : BOOLEAN, segment : BOOLEAN,
             substitution : BOOLEAN]

\* _confirm_callback: None, or a function that returns True, returns
\* False, or raises
Callbacks == {"none", "allows", "refuses", "raises"}

\* check_command_safety(command): TRUE when it returns a warning
CheckCommandSafety(cmd) ==
  cmd.raw \/ cmd.normalized \/ cmd.segment \/ cmd.substitution

\* a gate that lets the command through when no callback is set
ConfirmOrBlockOpen(callback) ==
  IF callback = "none" THEN "allowed"
  ELSE IF callback = "allows" THEN "allowed"
  ELSE IF callback = "refuses" THEN "blocked by user"
  ELSE "raises"

\* _confirm_or_block(command, reason): "allowed" (None is returned), one
\* of the two blocked strings, or the exception of the callback
ConfirmOrBlock(callback) ==
  IF callback = "none" THEN "blocked"
  ELSE IF callback = "allows" THEN "allowed"
  ELSE IF callback = "refuses" THEN "blocked by user"
  ELSE "raises"

\* the safety gate of run_command and run_background
Gate(cmd, callback) ==
  IF CheckCommandSafety(cmd) THEN ConfirmOrBlock(callback) ELSE "allowed"

TerminalInit ==
  /\ xCmd \in Commands
  /\ xCallback \in Callbacks
  /\ xActive \in 0..MAX_BACKGROUND_PROCESSES
  /\ xPc = "called"
  /\ xRet = "none"
  /\ xSpawned = FALSE
  /\ xAsked = FALSE

TerminalIdle ==
  /\ xCmd = [raw |-> FALSE, normalized |-> FALSE, segment |-> FALSE,
             substitution |-> FALSE]
  /\ xCallback = "none"
  /\ xActive = 0
  /\ xPc = "called"
  /\ xRet = "none"
  /\ xSpawned = FALSE
  /\ xAsked = FALSE

\* run_command(command): the gate, then subprocess.run, whose end is the
\* output, a timeout or another exception
RunCommand ==
  /\ xPc = "called"
  /\ xPc' = "returned"
  /\ xAsked' = (CheckCommandSafety(xCmd) /\ xCallback # "none")
  /\ LET gate == Gate(xCmd, xCallback) IN
     IF gate = "allowed"
     THEN /\ xSpawned' = TRUE
          /\ xRet' \in {"output", "timed out", "error"}
     ELSE /\ xSpawned' = FALSE
          /\ xRet' = IF gate = "raises" THEN "error" ELSE gate
  /\ UNCHANGED <<xCmd, xCallback, xActive, exceptTerminal>>

\* run_background(command): the limit on live sessions, the gate, then
\* _manager.start
RunBackground ==
  /\ xPc = "called"
  /\ xPc' = "returned"
  /\ IF xActive >= MAX_BACKGROUND_PROCESSES
     THEN /\ xRet' = "maximum"
          /\ UNCHANGED <<xSpawned, xAsked, xActive>>
     ELSE /\ xAsked' = (CheckCommandSafety(xCmd) /\ xCallback # "none")
          /\ LET gate == Gate(xCmd, xCallback) IN
             IF gate = "allowed"
             THEN \/ /\ xSpawned' = TRUE
                     /\ xActive' = xActive + 1
                     /\ xRet' \in {"started", "exited"}
                  \/ /\ xSpawned' = FALSE
                     /\ xRet' = "error"
                     /\ UNCHANGED xActive
             ELSE /\ xSpawned' = FALSE
                  /\ xRet' = IF gate = "raises" THEN "error" ELSE gate
                  /\ UNCHANGED xActive
  /\ UNCHANGED <<xCmd, xCallback, exceptTerminal>>

NextTerminal == RunCommand \/ RunBackground

-----------------------------------------------------------------------------
(***************************************************************************)
(* fetch_url (tools/web.py) and validate_url (tools/security.py).  The     *)
(* web is a set of URLs; each has the class validate_url finds for it and  *)
(* the answer its server gives: a redirect to a URL, a redirect with no    *)
(* location, or a final response.                                          *)
(***************************************************************************)
MAX_REDIRECTS == 5
MaxUrls == 3

Urls == 1..MaxUrls

\* what validate_url finds: a public host, a private or loopback address,
\* a cloud metadata host, a scheme that is not http(s)
UrlClasses == {"public", "private", "metadata", "scheme"}

Final == 0
NoLocation == -1
Answers == Urls \cup {Final, NoLocation}

\* a validation that forgets the cloud metadata hosts
ValidateUrlWithoutMetadata(class) == class \in {"public", "metadata"}

\* validate_url(url): TRUE when it returns None
ValidateUrl(class) == class = "public"

FetchInit ==
  /\ hClass \in [Urls -> UrlClasses]
  /\ hAnswer \in [Urls -> Answers]
  /\ hUrl \in Urls
  /\ hPc = "called"
  /\ hCurrent = 0
  /\ hIter = 0
  /\ hRequested = <<>>
  /\ hAccepted = {}
  /\ hRet = "none"

FetchIdle ==
  /\ hClass = [u \in Urls |-> "public"]
  /\ hAnswer = [u \in Urls |-> Final]
  /\ hUrl = 1
  /\ hPc = "called"
  /\ hCurrent = 0
  /\ hIter = 0
  /\ hRequested = <<>>
  /\ hAccepted = {}
  /\ hRet = "none"

\* fetch_url: url_err = validate_url(url)
FetchValidate ==
  /\ hPc = "called"
  /\ IF ValidateUrl(hClass[hUrl])
     THEN /\ hPc' = "loop"
          /\ hCurrent' = hUrl
          /\ hAccepted' = hAccepted \cup {hUrl}
          /\ hRet' = hRet
     ELSE /\ hPc' = "returned"
          /\ hRet' = "error"
          /\ UNCHANGED <<hCurrent, hAccepted>>
  /\ UNCHANGED <<hClass, hAnswer, hUrl, hIter, hRequested, exceptFetch>>

\* one pass of the loop: httpx.get(current_url, follow_redirects=False),
\* then the test of the status and the validation of the location
FetchGet ==
  /\ hPc = "loop"
  /\ hIter < MAX_REDIRECTS
  /\ hRequested' = Append(hRequested, hCurrent)
  /\ LET answer == hAnswer[hCurrent] IN
     IF answer \in {Final, NoLocation}
     THEN /\ hPc' = "status"
          /\ UNCHANGED <<hCurrent, hIter, hAccepted, hRet>>
     ELSE IF ValidateUrl(hClass[answer])
     THEN /\ hCurrent' = answer
          /\ hAccepted' = hAccepted \cup {answer}
          /\ hIter' = hIter + 1
          /\ hPc' = IF hIter + 1 = MAX_REDIRECTS THEN "status" ELSE "loop"
          /\ hRet' = hRet
     ELSE /\ hPc' = "returned"
          /\ hRet' = "redirect blocked"
          /\ UNCHANGED <<hCurrent, hIter, hAccepted>>
  /\ UNCHANGED <<hClass, hAnswer, hUrl, exceptFetch>>

\* resp.raise_for_status() and the text of the last response
FetchReturn ==
  /\ hPc = "status"
  /\ hPc' = "returned"
  /\ hRet' = IF hAnswer[hRequested[Len(hRequested)]] = Final
             THEN "content" ELSE "error"
  /\ UNCHANGED <<hClass, hAnswer, hUrl, hCurrent, hIter, hRequested,
                 hAccepted, exceptFetch>>

NextFetch == FetchValidate \/ FetchGet \/ FetchReturn

-----------------------------------------------------------------------------
(***************************************************************************)
(* GatewayManager.process_inbound and _process_message (gateway/           *)
(* manager.py).  One webhook request is handled; what the channel adapter, *)
(* the router, the pool and the agent do with it is drawn beforehand.      *)
(***************************************************************************)
StableError == "Something went wrong. Try again?"
NotConfiguredText == "Agent not configured."

Inbounds ==
  [registered : BOOLEAN,      \* channel_type in self.channels
   configured : BOOLEAN,      \* channel.is_configured()
   async : BOOLEAN,           \* channel_type in _async_channels
   validate : BOOLEAN,        \* channel.validate_webhook(request)
   parse : BOOLEAN,           \* parse_inbound returned a message
   meta : {"m1", "m2"},       \* msg.channel_metadata
   mode : {"pool", "agent", "none"},
   route_raises : BOOLEAN,
   get_agent : {"agent", "ValueError", "raises"},
   chat_raises : BOOLEAN,
   send : {"sent", "refused", "raises"}]

\* a validation that accepts every request
WebhookValidAlways(env) == TRUE

\* channel.validate_webhook(flask_request)
WebhookValid(env) == env.validate

\* a reply that drops the metadata of the inbound message
EchoedNothing(env) == "none"

\* metadata = msg.channel_metadata, handed to channel.send_message
EchoedMetadata(env) == env.meta

InboundInit ==
  /\ iEnv \in Inbounds
  /\ iPc = "called"
  /\ iCalls = <<>>
  /\ iText = ""
  /\ iSent = <<>>
  /\ iRet = "none"

InboundIdle ==
  /\ iEnv = [registered |-> FALSE, configured |-> FALSE, async |-> FALSE,
             validate |-> FALSE, parse |-> FALSE, meta |-> "m1",
             mode |-> "none", route_raises |-> FALSE,
             get_agent |-> "agent", chat_raises |-> FALSE, send |-> "sent"]
  /\ iPc = "called"
  /\ iCalls = <<>>
  /\ iText = ""
  /\ iSent = <<>>
  /\ iRet = "none"

\* channel = self.channels.get(channel_type); channel.is_configured()
InboundLookup ==
  /\ iPc = "called"
  /\ iCalls' = IF iEnv.registered THEN Append(iCalls, "is_configured")
               ELSE iCalls
  /\ IF iEnv.registered /\ iEnv.configured
     THEN iPc' = "validate" /\ iRet' = iRet
     ELSE iPc' = "returned" /\ iRet' = "Channel not configured"
  /\ UNCHANGED <<iEnv, iText, iSent, exceptInbound>>

InboundValidate ==
  /\ iPc = "validate"
  /\ iCalls' = Append(iCalls, "validate_webhook")
  /\ IF WebhookValid(iEnv)
     THEN iPc' = "parse" /\ iRet' = iRet
     ELSE iPc' = "returned" /\ iRet' = "Invalid signature"
  /\ UNCHANGED <<iEnv, iText, iSent, exceptInbound>>

InboundParse ==
  /\ iPc = "parse"
  /\ iCalls' = Append(iCalls, "parse_inbound")
  /\ IF iEnv.parse
     THEN iPc' = "route" /\ iRet' = iRet
     ELSE iPc' = "returned" /\ iRet' = "skipped"
  /\ UNCHANGED <<iEnv, iText, iSent, exceptInbound>>

\* _process_message up to the agent: router.route and pool.get_agent (only
\* ValueError is caught), or the single agent
InboundRoute ==
  /\ iPc = "route"
  /\ IF iEnv.mode = "pool"
     THEN IF iEnv.route_raises
          THEN /\ iCalls' = Append(iCalls, "route")
               /\ iPc' = "raised"
               /\ iText' = iText
          ELSE /\ iCalls' = iCalls \o <<"route", "get_agent">>
               /\ iPc' = IF iEnv.get_agent = "agent" THEN "chat"
                         ELSE IF iEnv.get_agent = "ValueError" THEN "format"
                         ELSE "raised"
               /\ iText' = IF iEnv.get_agent = "ValueError"
                           THEN NotConfiguredText ELSE iText
     ELSE /\ iCalls' = iCalls
          /\ iPc' = IF iEnv.mode = "agent" THEN "chat" ELSE "format"
          /\ iText' = IF iEnv.mode = "agent" THEN iText
                      ELSE NotConfiguredText
  /\ UNCHANGED <<iEnv, iSent, iRet, exceptInbound>>

\* response_text = agent.chat(msg.text) in its try block
InboundChat ==
  /\ iPc = "chat"
  /\ iCalls' = Append(iCalls, "chat")
  /\ iText' = IF iEnv.chat_raises THEN StableError ELSE "reply"
  /\ iPc' = "format"
  /\ UNCHANGED <<iEnv, iSent, iRet, exceptInbound>>

\* webhook_resp = channel.format_webhook_response(response_text, msg)
InboundFormat ==
  /\ iPc = "format"
  /\ iCalls' = Append(iCalls, "format_webhook_response")
  /\ iPc' = IF iEnv.async THEN "send" ELSE "return"
  /\ UNCHANGED <<iEnv, iText, iSent, iRet, exceptInbound>>

\* channel.send_message(chat id, response_text, metadata)
InboundSend ==
  /\ iPc = "send"
  /\ iCalls' = Append(iCalls, "send_message")
  /\ iSent' = Append(iSent, [text |-> iText, meta |-> EchoedMetadata(iEnv)])
  /\ iPc' = IF iEnv.send = "raises" THEN "raised" ELSE "return"
  /\ UNCHANGED <<iEnv, iText, iRet, exceptInbound>>

InboundReturn ==
  /\ iPc = "return"
  /\ iPc' = "returned"
  /\ iRet' = "success"
  /\ UNCHANGED <<iEnv, iCalls, iText, iSent, exceptInbound>>

NextInbound ==
  \/ InboundLookup \/ InboundValidate \/ InboundParse \/ InboundRoute
  \/ InboundChat \/ InboundFormat \/ InboundSend \/ InboundReturn

-----------------------------------------------------------------------------
(***************************************************************************)
(* GatewayManager.auto_configure for the channels that keep a connection   *)
(* open (gateway/manager.py, channels/discord_channel.py, irc_channel.py,  *)
(* twitch_channel.py), and the messages users post on them.                *)
(***************************************************************************)
MaxBotMessages == 2

LongLived == {"discord", "irc", "twitch"}

\* the channels on which auto_configure calls ch.start_bot(...)
StartedByAutoConfigure == {"discord"}

BotsInit ==
  /\ bEnabled \in SUBSET LongLived
  /\ bConfigured \in SUBSET LongLived
  /\ bPc = "constructed"
  /\ bChannels = {}
  /\ bStarted = {}
  /\ bPosted = [ch \in LongLived |-> 0]
  /\ bHanded = [ch \in LongLived |-> 0]

BotsIdle ==
  /\ bEnabled = {}
  /\ bConfigured = {}
  /\ bPc = "constructed"
  /\ bChannels = {}
  /\ bStarted = {}
  /\ bPosted = [ch \in LongLived |-> 0]
  /\ bHanded = [ch \in LongLived |-> 0]

\* auto_configure: an enabled channel whose is_configured() is true is
\* registered; start_bot(self._handle_discord_message) follows for Discord
AutoConfigure ==
  /\ bPc = "constructed"
  /\ bPc' = "configured"
  /\ bChannels' = bEnabled \cap bConfigured
  /\ bStarted' = bEnabled \cap bConfigured \cap StartedByAutoConfigure
  /\ UNCHANGED <<bEnabled, bConfigured, bPosted, bHanded, exceptBots>>

\* a user posts a message on the network of a configured channel; the
\* thread of start_bot, where one runs, hands it to its callback
\* (_handle_discord_message -> _process_message)
BotMessage(ch) ==
  /\ bPc = "configured"
  /\ ch \in bChannels
  /\ bPosted[ch] < MaxBotMessages
  /\ bPosted' = [bPosted EXCEPT ![ch] = @ + 1]
  /\ bHanded' = IF ch \in bStarted THEN [bHanded EXCEPT ![ch] = @ + 1]
                ELSE bHanded
  /\ UNCHANGED <<bEnabled, bConfigured, bPc, bChannels, bStarted, exceptBots>>

NextBots ==
  \/ AutoConfigure
  \/ \E ch \in LongLived : BotMessage(ch)

-----------------------------------------------------------------------------
(***************************************************************************)
(* Agent._execute_tool (agent/core.py) applied, in order, to the tool      *)
(* calls of one response, each result appended to the working list.        *)
(***************************************************************************)
MaxCallsPerResponse == 2

\* self._tools: the names with a handler
RegisteredTools == {"read"}

\* what a handler gives back: a string, an integer or None
Values ==
  {[type |-> "str", text |-> "ok", n |-> 0],
   [type |-> "int", text |-> "", n |-> 7],
   [type |-> "none", text |-> "", n |-> 0]}

Returns(v) == [raises |-> FALSE, value |-> v, etype |-> "", emsg |-> ""]

Raises(etype, emsg) ==
  [raises |-> TRUE, value |-> [type |-> "none", text |-> "", n |-> 0],
   etype |-> etype, emsg |-> emsg]

\* a tool call of a response: its name, whether its arguments are a
\* mapping, and what the handler does when called with them
ToolCalls ==
  {[name |-> "nope", mapping |-> TRUE, does |-> Returns(v)] :
     v \in {[type |-> "str", text |-> "ok", n |-> 0]}}
  \cup {[name |-> "read", mapping |-> TRUE, does |-> Returns(v)] :
          v \in Values}
  \cup {[name |-> "read", mapping |-> TRUE,
         does |-> Raises("OSError", "disk")],
        [name |-> "read", mapping |-> FALSE,
         does |-> Raises("TypeError", "argument after ** must be a mapping")]}

Digits == <<"0", "1", "2", "3", "4", "5", "6", "7", "8", "9">>

\* str(result)
Str(v) ==
  CASE v.type = "str" -> v.text
    [] v.type = "int" -> Digits[v.n + 1]
    [] v.type = "none" -> "None"

\* _execute_tool without its try block
ExecuteToolCallUncaught(call) ==
  IF call.name \notin RegisteredTools
  THEN [raised |-> FALSE, text |-> "Error: Unknown tool '" \o call.name \o "'"]
  ELSE IF call.does.raises
  THEN [raised |-> TRUE, text |-> ""]
  ELSE [raised |-> FALSE,
        text |-> IF call.does.value.type = "none" THEN "Done."
                 ELSE Str(call.does.value)]

\* _execute_tool: the string it returns; raised would be an exception
\* leaving it
ExecuteToolCall(call) ==
  IF call.name \notin RegisteredTools
  THEN [raised |-> FALSE, text |-> "Error: Unknown tool '" \o call.name \o "'"]
  ELSE IF call.does.raises
  THEN [raised |-> FALSE,
        text |-> "Tool '" \o call.name \o "' failed: " \o call.does.etype
                   \o ": " \o call.does.emsg]
  ELSE [raised |-> FALSE,
        text |-> IF call.does.value.type = "none" THEN "Done."
                 ELSE Str(call.does.value)]

DispatchInit ==
  /\ eCalls \in UNION {[1..n -> ToolCalls] : n \in 1..MaxCallsPerResponse}
  /\ eDone = 0
  /\ eResults = <<>>
  /\ ePc = "loop"

DispatchIdle ==
  /\ eCalls = <<>>
  /\ eDone = 0
  /\ eResults = <<>>
  /\ ePc = "loop"

\* for tool_call in response.tool_calls: result = self._execute_tool(...);
\* messages.append(self._format_tool_result(tool_call, result))
DispatchNext ==
  /\ ePc = "loop"
  /\ eDone < Len(eCalls)
  /\ LET r == ExecuteToolCall(eCalls[eDone + 1]) IN
       IF r.raised
       THEN ePc' = "raised" /\ eResults' = eResults
       ELSE ePc' = "loop" /\ eResults' = Append(eResults, r.text)
  /\ eDone' = eDone + 1
  /\ UNCHANGED <<eCalls, exceptDispatch>>

\* the for loop over the tool calls is over
DispatchEnd ==
  /\ ePc = "loop"
  /\ eDone = Len(eCalls)
  /\ eDone > 0
  /\ ePc' = "next iteration"
  /\ UNCHANGED <<eCalls, eDone, eResults, exceptDispatch>>

NextDispatch == DispatchNext \/ DispatchEnd

-----------------------------------------------------------------------------
(***************************************************************************)
(* Agent.chat and Agent.chat_stream (agent/core.py) with the working list  *)
(* `messages` and the provider calls written out.  A text is a sequence of *)
(* characters; a message carries its role, whether it is the assistant     *)
(* message of a tool iteration ("calls") or a tool result ("result"), and  *)
(* its text.  The agent has no compactor and no skill loader.              *)
(***************************************************************************)
MaxTurns == 2
MaxChunks == 2

\* response.text of a final response, and of a response with tool calls
\* (empty: the model says nothing beside its calls)
Texts == {<<"a">>, <<" ", "a">>}
ToolTexts == {<<>>}

\* the text events a provider streams
Chunks == {<<"a">>, <<" ">>}

\* "I got stuck in a tool loop. Try rephrasing?"
StuckText == <<"s", "t", "u", "c", "k">>

RECURSIVE LStrip(_)
LStrip(s) == IF s # <<>> /\ Head(s) = " " THEN LStrip(Tail(s)) ELSE s

RECURSIVE RStrip(_)
RStrip(s) ==
  IF s # <<>> /\ s[Len(s)] = " " THEN RStrip(SubSeq(s, 1, Len(s) - 1)) ELSE s

\* str.strip()
Strip(s) == RStrip(LStrip(s))

Message(role, tool, text) == [role |-> role, tool |-> tool, text |-> text]

\* _build_messages: the system prompt, then a copy of the history
BuildMessages(hist) == <<Message("system", "none", <<>>)>> \o hist

\* the tool iteration appended to history too, as if the working list
\* were the history itself
HistoryWithToolMessages(hist, added) == hist \o added

\* self.history across a tool iteration: messages.append(...) touches the
\* working list only
HistoryAfterToolIteration(hist, added) == hist

\* _format_assistant_tool_message and one _format_tool_result per call
ToolMessages(text, n) ==
  <<Message("assistant", "calls", text)>>
    \o [k \in 1..n |-> Message("tool", "result", <<"r">>)]

ToolEvents(n) == [k \in 1..n |-> [type |-> "tool_calls", text |-> <<>>,
                                   from |-> "agent"]]

TextEvent(text, from) == [type |-> "text", text |-> text, from |-> from]

DoneEvent == [type |-> "done", text |-> <<>>, from |-> "agent"]

\* self.history.append({"role": "assistant", ...}); self._compact_or_trim()
Committed(hist, text) ==
  TrimHistory(Append(hist, Message("assistant", "none", text))).hist

TurnInit ==
  /\ qTools \in BOOLEAN
  /\ qHist = <<>>
  /\ qMsgs = <<>>
  /\ qPc = "idle"
  /\ qMode = "chat"
  /\ qIter = 0
  /\ qLast = <<>>
  /\ qApi = <<>>
  /\ qEvents = <<>>
  /\ qFull = <<>>
  /\ qTurns = 0

TurnIdle ==
  /\ qTools = FALSE
  /\ qHist = <<>>
  /\ qMsgs = <<>>
  /\ qPc = "idle"
  /\ qMode = "chat"
  /\ qIter = 0
  /\ qLast = <<>>
  /\ qApi = <<>>
  /\ qEvents = <<>>
  /\ qFull = <<>>
  /\ qTurns = 0

\* chat(message) or chat_stream(message) up to the loop
TurnStart ==
  /\ qPc \in {"idle", "returned", "raised"}
  /\ qTurns < MaxTurns
  /\ qTurns' = qTurns + 1
  /\ qMode' \in {"chat", "chat_stream"}
  /\ qHist' = Append(qHist, Message("user", "none", <<"u">>))
  /\ qMsgs' = BuildMessages(qHist')
  /\ qPc' = "loop"
  /\ qIter' = 0
  /\ qLast' = <<>>
  /\ qApi' = <<>>
  /\ qEvents' = <<>>
  /\ qFull' = <<>>
  /\ UNCHANGED <<qTools, exceptTurn>>

\* chat: provider.chat returns a response without tool calls
ChatFinal ==
  /\ qPc = "loop" /\ qMode = "chat"
  /\ qIter < MAX_TOOL_ITERATIONS
  /\ \E t \in Texts : qHist' = Committed(qHist, Strip(t))
  /\ qApi' = Append(qApi, [api |-> "chat", tools |-> FALSE])
  /\ qPc' = "returned"
  /\ UNCHANGED <<qTools, qMsgs, qMode, qIter, qLast, qEvents, qFull, qTurns,
                 exceptTurn>>

\* chat: provider.chat returns n tool calls; they are executed and the
\* assistant message and the results appended to the working list
ChatTools ==
  /\ qPc = "loop" /\ qMode = "chat"
  /\ qTools
  /\ qIter < MAX_TOOL_ITERATIONS
  /\ \E t \in ToolTexts, n \in 1..MaxToolCalls :
       /\ qMsgs' = qMsgs \o ToolMessages(t, n)
       /\ qHist' = HistoryAfterToolIteration(qHist, ToolMessages(t, n))
       /\ qLast' = t
  /\ qApi' = Append(qApi, [api |-> "chat", tools |-> TRUE])
  /\ qIter' = qIter + 1
  /\ UNCHANGED <<qTools, qPc, qMode, qEvents, qFull, qTurns, exceptTurn>>

\* chat: the for loop ran out
ChatFallback ==
  /\ qPc = "loop" /\ qMode = "chat"
  /\ qIter = MAX_TOOL_ITERATIONS
  /\ qHist' = Committed(qHist, IF qLast # <<>> THEN qLast ELSE StuckText)
  /\ qPc' = "returned"
  /\ UNCHANGED <<qTools, qMsgs, qMode, qIter, qLast, qApi, qEvents, qFull,
                 qTurns, exceptTurn>>

\* chat_stream: the non-streaming call of an iteration returns no tool
\* calls; its text is yielded as one chunk
StreamLoopFinal ==
  /\ qPc = "loop" /\ qMode = "chat_stream"
  /\ qTools /\ qIter < MAX_TOOL_ITERATIONS - 1
  /\ \E t \in Texts :
       /\ qHist' = Committed(qHist, Strip(t))
       /\ qEvents' = qEvents \o <<TextEvent(Strip(t), "provider.chat"),
                                  DoneEvent>>
  /\ qApi' = Append(qApi, [api |-> "chat", tools |-> FALSE])
  /\ qPc' = "returned"
  /\ UNCHANGED <<qTools, qMsgs, qMode, qIter, qLast, qFull, qTurns,
                 exceptTurn>>

\* chat_stream: the non-streaming call of an iteration returns n tool calls
StreamLoopTools ==
  /\ qPc = "loop" /\ qMode = "chat_stream"
  /\ qTools /\ qIter < MAX_TOOL_ITERATIONS - 1
  /\ \E t \in ToolTexts, n \in 1..MaxToolCalls :
       /\ qMsgs' = qMsgs \o ToolMessages(t, n)
       /\ qHist' = HistoryAfterToolIteration(qHist, ToolMessages(t, n))
       /\ qEvents' = qEvents \o ToolEvents(n)
       /\ qLast' = t
  /\ qApi' = Append(qApi, [api |-> "chat", tools |-> TRUE])
  /\ qIter' = qIter + 1
  /\ UNCHANGED <<qTools, qPc, qMode, qFull, qTurns, exceptTurn>>

\* chat_stream: no tools, or the last possible iteration: break, and
\* provider.stream is called
StreamBegin ==
  /\ qPc = "loop" /\ qMode = "chat_stream"
  /\ ~qTools \/ qIter = MAX_TOOL_ITERATIONS - 1
  /\ qPc' = "stream"
  /\ qApi' = Append(qApi, [api |-> "stream", tools |-> FALSE])
  /\ UNCHANGED <<qTools, qHist, qMsgs, qMode, qIter, qLast, qEvents, qFull,
                 qTurns, exceptTurn>>

\* a text event of the stream is passed on
StreamText ==
  /\ qPc = "stream"
  /\ Len(qFull) < MaxChunks
  /\ \E c \in Chunks :
       /\ qFull' = qFull \o c
       /\ qEvents' = Append(qEvents, TextEvent(c, "provider.stream"))
  /\ UNCHANGED <<qTools, qHist, qMsgs, qPc, qMode, qIter, qLast, qApi,
                 qTurns, exceptTurn>>

\* a tool_calls event in the streaming pass: the calls are executed
StreamLateTools ==
  /\ qPc = "stream"
  /\ qTools
  /\ \E n \in 1..MaxToolCalls :
       /\ qMsgs' = qMsgs \o ToolMessages(qFull, n)
       /\ qHist' = HistoryAfterToolIteration(qHist, ToolMessages(qFull, n))
       /\ qEvents' = qEvents \o ToolEvents(n)
  /\ qApi' = [qApi EXCEPT ![Len(qApi)].tools = TRUE]
  /\ qPc' = "late"
  /\ UNCHANGED <<qTools, qMode, qIter, qLast, qFull, qTurns, exceptTurn>>

\* fallback = self.provider.chat(...) after the late tools; whatever it
\* returns, its stripped text is the final text
StreamLateFinal ==
  /\ qPc = "late"
  /\ \E t \in Texts, again \in BOOLEAN :
       /\ qHist' = Committed(qHist, Strip(t))
       /\ qEvents' = qEvents \o <<TextEvent(Strip(t), "provider.chat"),
                                  DoneEvent>>
       /\ qApi' = Append(qApi, [api |-> "chat", tools |-> again])
  /\ qPc' = "returned"
  /\ UNCHANGED <<qTools, qMsgs, qMode, qIter, qLast, qFull, qTurns,
                 exceptTurn>>

\* the stream is over without tool calls
StreamDone ==
  /\ qPc = "stream"
  /\ qHist' = Committed(qHist, Strip(qFull))
  /\ qEvents' = Append(qEvents, DoneEvent)
  /\ qPc' = "returned"
  /\ UNCHANGED <<qTools, qMsgs, qMode, qIter, qLast, qApi, qFull, qTurns,
                 exceptTurn>>

\* a provider call raises: the exception leaves chat / chat_stream
TurnRaises ==
  /\ qPc \in {"loop", "stream", "late"}
  /\ qPc = "loop" => (qMode = "chat" /\ qIter < MAX_TOOL_ITERATIONS)
                       \/ (qMode = "chat_stream" /\ qTools
                             /\ qIter < MAX_TOOL_ITERATIONS - 1)
  /\ qPc' = "raised"
  /\ UNCHANGED <<qTools, qHist, qMsgs, qMode, qIter, qLast, qApi, qEvents,
                 qFull, qTurns, exceptTurn>>

NextTurn ==
  \/ TurnStart \/ ChatFinal \/ ChatTools \/ ChatFallback
  \/ StreamLoopFinal \/ StreamLoopTools \/ StreamBegin \/ StreamText
  \/ StreamLateTools \/ StreamLateFinal \/ StreamDone \/ TurnRaises

-----------------------------------------------------------------------------
(***************************************************************************)
(* A module-level singleton (agent/skills.py _loader, agent/memory.py      *)
(* _memory, agent/scheduler.py _scheduler) used by concurrent callers.     *)
(* The lazy getter is `if _x is None: _x = X()` then `return _x`; the      *)
(* initialiser (init_skills, init_scheduler) is `_x = X(...)`, then the    *)
(* rest of the set-up (ensure_dirs(), start()).  An object is a number,    *)
(* the order of its construction; 0 is None.                               *)
(***************************************************************************)
MaxSingletonCalls == 3
SingletonThreads == 1..2

SingletonInit ==
  /\ jGlobal = 0
  /\ jPc = [t \in SingletonThreads |-> "idle"]
  /\ jLocal = [t \in SingletonThreads |-> 0]
  /\ jMade = 0
  /\ jReady = {}
  /\ jSeen = {}
  /\ jSeenUnready = FALSE
  /\ jCalls = 0

SingletonIdle == SingletonInit

\* if _memory is None:
LazyTest(t) ==
  /\ jPc[t] = "idle"
  /\ jCalls < MaxSingletonCalls
  /\ jCalls' = jCalls + 1
  /\ jPc' = [jPc EXCEPT ![t] = IF jGlobal = 0 THEN "construct" ELSE "return"]
  /\ UNCHANGED <<jGlobal, jLocal, jMade, jReady, jSeen, jSeenUnready,
                 exceptSingleton>>

\* Memory() / SkillLoader(): the constructor runs
LazyConstruct(t) ==
  /\ jPc[t] = "construct"
  /\ jMade' = jMade + 1
  /\ jLocal' = [jLocal EXCEPT ![t] = jMade + 1]
  /\ jReady' = jReady \cup {jMade + 1}
  /\ jPc' = [jPc EXCEPT ![t] = "assign"]
  /\ UNCHANGED <<jGlobal, jSeen, jSeenUnready, jCalls, exceptSingleton>>

\* _memory = <the new object>
LazyAssign(t) ==
  /\ jPc[t] = "assign"
  /\ jGlobal' = jLocal[t]
  /\ jPc' = [jPc EXCEPT ![t] = "return"]
  /\ UNCHANGED <<jLocal, jMade, jReady, jSeen, jSeenUnready, jCalls,
                 exceptSingleton>>

\* return _memory: the caller gets what the global holds now
LazyReturn(t) ==
  /\ jPc[t] = "return"
  /\ jSeen' = jSeen \cup {jGlobal}
  /\ jSeenUnready' = (jSeenUnready \/ jGlobal \notin jReady)
  /\ jPc' = [jPc EXCEPT ![t] = "idle"]
  /\ UNCHANGED <<jGlobal, jLocal, jMade, jReady, jCalls, exceptSingleton>>

\* init_skills / init_scheduler: _x = X(...), whatever _x held
InitConstructAssign(t) ==
  /\ jPc[t] = "idle"
  /\ jCalls < MaxSingletonCalls
  /\ jCalls' = jCalls + 1
  /\ jMade' = jMade + 1
  /\ jLocal' = [jLocal EXCEPT ![t] = jMade + 1]
  /\ jGlobal' = jMade + 1
  /\ jPc' = [jPc EXCEPT ![t] = "setup"]
  /\ UNCHANGED <<jReady, jSeen, jSeenUnready, exceptSingleton>>

\* _loader.ensure_dirs() / _scheduler.start() on the global, then return
InitSetUp(t) ==
  /\ jPc[t] = "setup"
  /\ jReady' = jReady \cup {jGlobal}
  /\ jSeen' = jSeen \cup {jGlobal}
  /\ jPc' = [jPc EXCEPT ![t] = "idle"]
  /\ UNCHANGED <<jGlobal, jLocal, jMade, jSeenUnready, jCalls,
                 exceptSingleton>>

NextSingleton ==
  \E t \in SingletonThreads :
    \/ LazyTest(t) \/ LazyConstruct(t) \/ LazyAssign(t) \/ LazyReturn(t)
    \/ InitConstructAssign(t) \/ InitSetUp(t)

-----------------------------------------------------------------------------
(***************************************************************************)
(* AgentRouter.route (agent/router.py) applied to one message.  A text is  *)
(* a sequence of characters; the rules are the items of the rules dict in  *)
(* insertion order, each a key and an agent name.                          *)
(***************************************************************************)
RouteTexts ==
  {<<"!", "x">>, <<"!", " ", "x">>, <<"!", "c", " ", "x", " ">>,
   <<"x">>, <<"x", "!">>, <<>>}

RouteRules ==
  {<<[key |-> <<"!">>, agent |-> "coder"],
     [key |-> <<"!", "c">>, agent |-> "safe"]>>,
   <<[key |-> <<"!", "c">>, agent |-> "safe"],
     [key |-> <<"!">>, agent |-> "coder"]>>,
   <<[key |-> <<"s1">>, agent |-> "coder"],
     [key |-> <<"discord">>, agent |-> "safe"]>>}

RouteMessages ==
  [text : RouteTexts, sender_id : {<<"s1">>, <<"s2">>},
   channel : {<<"discord">>, <<"irc">>}]

\* text.startswith(prefix)
StartsWith(text, prefix) ==
  /\ Len(prefix) <= Len(text)
  /\ SubSeq(text, 1, Len(prefix)) = prefix

\* pattern.search(text) for a pattern without metacharacters
Search(pattern, text) ==
  \E i \in 0..(Len(text) - Len(pattern)) :
    SubSeq(text, i + 1, i + Len(pattern)) = pattern

\* whether the rule with this key applies to the message
Matches(strategy, key, msg) ==
  CASE strategy = "sender" -> key = msg.sender_id
    [] strategy = "channel" -> key = msg.channel
    [] strategy = "content" -> Search(key, msg.text)
    [] strategy = "prefix" -> StartsWith(msg.text, key)

\* the first rule, in the order of the dict, that applies: its index, or 0
FirstRule(strategy, rules, msg) ==
  IF \E k \in 1..Len(rules) : Matches(strategy, rules[k].key, msg)
  THEN CHOOSE k \in 1..Len(rules) :
         /\ Matches(strategy, rules[k].key, msg)
         /\ \A j \in 1..(k - 1) : ~Matches(strategy, rules[j].key, msg)
  ELSE 0

\* the text left by a prefix rule, were the prefix only cut off
PrefixCut(text, prefix) == SubSeq(text, Len(prefix) + 1, Len(text))

\* msg.text = text[len(prefix):].strip()
PrefixRemoved(text, prefix) ==
  Strip(SubSeq(text, Len(prefix) + 1, Len(text)))

\* route(msg): the name returned and the message as it is afterwards
Route(strategy, rules, default, msg) ==
  LET k == FirstRule(strategy, rules, msg)
  IN [name |-> IF k = 0 THEN default ELSE rules[k].agent,
      msg |-> IF strategy = "prefix" /\ k # 0
              THEN [msg EXCEPT !.text = PrefixRemoved(msg.text, rules[k].key)]
              ELSE msg]

RouteInit ==
  /\ rStrategy \in {"sender", "channel", "content", "prefix"}
  /\ rRules \in RouteRules
  /\ rBefore \in RouteMessages
  /\ rMsg = rBefore
  /\ rName = ""
  /\ rPc = "new"

RouteIdle ==
  /\ rStrategy = "channel"
  /\ rRules = <<>>
  /\ rBefore = [text |-> <<>>, sender_id |-> <<>>, channel |-> <<>>]
  /\ rMsg = rBefore
  /\ rName = ""
  /\ rPc = "new"

RouteMessage ==
  /\ rPc = "new"
  /\ LET r == Route(rStrategy, rRules, "default", rMsg) IN
       /\ rName' = r.name
       /\ rMsg' = r.msg
  /\ rPc' = "routed"
  /\ UNCHANGED <<rStrategy, rRules, rBefore, exceptRoute>>

NextRoute == RouteMessage

-----------------------------------------------------------------------------
(***************************************************************************)
(* Tool registration: ToolRegistry.register and apply (tools/registry.py)  *)
(* and Agent.register_tool (agent/core.py).  A handler is a number (0: no  *)
(* entry); a schema is its "name" field and a version; every entry of the  *)
(* agent's schema list also remembers the name it was registered under.    *)
(***************************************************************************)
MaxRegistrations == 3

ToolNames == {"a", "b"}
ToolHandlers == {1, 2}
ToolSchemas == [name : ToolNames, v : {1, 2}]

NoSchema == [name |-> "", v |-> 0]
NoRegistration == [h |-> 0, s |-> NoSchema]

Entry(s, name) == [name |-> s.name, v |-> s.v, under |-> name]

\* a register_tool that appends the schema without looking for an old one
RegisterToolAppending(tools, schemas, name, h, s) ==
  [tools |-> [tools EXCEPT ![name] = h],
   schemas |-> Append(schemas, Entry(s, name))]

\* Agent.register_tool: the handler table and the schema list afterwards
RegisterTool(tools, schemas, name, h, s) ==
  [tools |-> [tools EXCEPT ![name] = h],
   schemas |-> Append(SelectSeq(schemas, LAMBDA e : e.name # name),
                      Entry(s, name))]

\* ToolRegistry.apply: register_tool for every name of the registry, in
\* the order of its dict
RECURSIVE ApplyAll(_, _, _, _, _)
ApplyAll(order, handlers, regSchemas, tools, schemas) ==
  IF order = <<>> THEN [tools |-> tools, schemas |-> schemas]
  ELSE LET n == Head(order)
           r == RegisterTool(tools, schemas, n, handlers[n], regSchemas[n])
       IN ApplyAll(Tail(order), handlers, regSchemas, r.tools, r.schemas)

RECURSIVE LastAll(_, _, _, _)
LastAll(order, handlers, regSchemas, last) ==
  IF order = <<>> THEN last
  ELSE LastAll(Tail(order), handlers, regSchemas,
               [last EXCEPT ![Head(order)] =
                  [h |-> handlers[Head(order)], s |-> regSchemas[Head(order)]]])

RegisterInit ==
  /\ uHandlers = [n \in ToolNames |-> 0]
  /\ uSchemas = [n \in ToolNames |-> NoSchema]
  /\ uOrder = <<>>
  /\ uTools = [n \in ToolNames |-> 0]
  /\ uToolSchemas = <<>>
  /\ uLast = [n \in ToolNames |-> NoRegistration]
  /\ uLastReg = [n \in ToolNames |-> NoRegistration]
  /\ uTwice = {}
  /\ uMatched = TRUE
  /\ uCalls = 0

RegisterIdle == RegisterInit

\* ToolRegistry.register(name, handler, schema)
RegistryRegister ==
  /\ uCalls < MaxRegistrations
  /\ \E name \in ToolNames, h \in ToolHandlers, s \in ToolSchemas :
       /\ uHandlers' = [uHandlers EXCEPT ![name] = h]
       /\ uSchemas' = [uSchemas EXCEPT ![name] = s]
       /\ uOrder' = IF uHandlers[name] = 0 THEN Append(uOrder, name)
                    ELSE uOrder
       /\ uLastReg' = [uLastReg EXCEPT ![name] = [h |-> h, s |-> s]]
       /\ uMatched' = (uMatched /\ s.name = name)
  /\ uCalls' = uCalls + 1
  /\ UNCHANGED <<uTools, uToolSchemas, uLast, uTwice, exceptRegister>>

\* agent.register_tool(name, handler, schema)
AgentRegisterTool ==
  /\ uCalls < MaxRegistrations
  /\ \E name \in ToolNames, h \in ToolHandlers, s \in ToolSchemas :
       LET r == RegisterTool(uTools, uToolSchemas, name, h, s) IN
         /\ uTools' = r.tools
         /\ uToolSchemas' = r.schemas
         /\ uLast' = [uLast EXCEPT ![name] = [h |-> h, s |-> s]]
         /\ uTwice' = IF uTools[name] # 0 THEN uTwice \cup {name} ELSE uTwice
         /\ uMatched' = (uMatched /\ s.name = name)
  /\ uCalls' = uCalls + 1
  /\ UNCHANGED <<uHandlers, uSchemas, uOrder, uLastReg, exceptRegister>>

\* registry.apply(agent)
RegistryApply ==
  /\ uCalls < MaxRegistrations
  /\ uOrder # <<>>
  /\ LET r == ApplyAll(uOrder, uHandlers, uSchemas, uTools, uToolSchemas) IN
       /\ uTools' = r.tools
       /\ uToolSchemas' = r.schemas
  /\ uLast' = LastAll(uOrder, uHandlers, uSchemas, uLast)
  /\ uTwice' = uTwice \cup {n \in ToolNames : uHandlers[n] # 0 /\ uTools[n] # 0}
  /\ uCalls' = uCalls + 1
  /\ UNCHANGED <<uHandlers, uSchemas, uOrder, uLastReg, uMatched,
                 exceptRegister>>

NextRegister == RegistryRegister \/ AgentRegisterTool \/ RegistryApply

-----------------------------------------------------------------------------
(***************************************************************************)
(* Agent.chat called by two request threads on the one agent instance of   *)
(* a (name, sender) pair (server.py chat, gateway/manager.py               *)
(* _process_message).  The agent has no compactor; a response has no tool  *)
(* calls.  list.append is one step; `self.history = self.history[-n:]` is  *)
(* a read of the list followed by the assignment of the slice.             *)
(***************************************************************************)
MaxSharedRequests == 4
RequestThreads == 1..2

SharedInit ==
  /\ yHist = <<>>
  /\ yPc = [t \in RequestThreads |-> "idle"]
  /\ yReq = [t \in RequestThreads |-> 0]
  /\ ySlice = [t \in RequestThreads |-> <<>>]
  /\ yBase = [t \in RequestThreads |-> 0]
  /\ yRequests = 0
  /\ yLost = 0

SharedIdle == SharedInit

\* self.history.append({"role": "user", ...})
SharedAppendUser(t) ==
  /\ yPc[t] = "idle"
  /\ yRequests < MaxSharedRequests
  /\ yRequests' = yRequests + 1
  /\ yReq' = [yReq EXCEPT ![t] = yRequests + 1]
  /\ yHist' = Append(yHist, [role |-> "user", request |-> yRequests + 1])
  /\ yPc' = [yPc EXCEPT ![t] = "provider"]
  /\ UNCHANGED <<ySlice, yBase, yLost, exceptShared>>

\* provider.chat returned; self.history.append({"role": "assistant", ...})
SharedAppendAssistant(t) ==
  /\ yPc[t] = "provider"
  /\ yHist' = Append(yHist, [role |-> "assistant", request |-> yReq[t]])
  /\ yPc' = [yPc EXCEPT ![t] = "trim"]
  /\ UNCHANGED <<yReq, ySlice, yBase, yRequests, yLost, exceptShared>>

\* _trim_history: len(self.history) > max_messages, self.history[-n:]
SharedTrimRead(t) ==
  /\ yPc[t] = "trim"
  /\ IF Len(yHist) > MaxMessages
     THEN /\ ySlice' = [ySlice EXCEPT ![t] = TrimHistory(yHist).hist]
          /\ yBase' = [yBase EXCEPT ![t] = Len(yHist)]
          /\ yPc' = [yPc EXCEPT ![t] = "assign"]
     ELSE /\ yPc' = [yPc EXCEPT ![t] = "idle"]
          /\ UNCHANGED <<ySlice, yBase>>
  /\ UNCHANGED <<yHist, yReq, yRequests, yLost, exceptShared>>

\* self.history = <the slice>; what was appended since the read is gone
SharedTrimAssign(t) ==
  /\ yPc[t] = "assign"
  /\ yHist' = ySlice[t]
  /\ yLost' = yLost + (IF Len(yHist) > yBase[t] THEN Len(yHist) - yBase[t]
                       ELSE 0)
  /\ yPc' = [yPc EXCEPT ![t] = "idle"]
  /\ UNCHANGED <<yReq, ySlice, yBase, yRequests, exceptShared>>

NextShared ==
  \E t \in RequestThreads :
    \/ SharedAppendUser(t) \/ SharedAppendAssistant(t)
    \/ SharedTrimRead(t) \/ SharedTrimAssign(t)

-----------------------------------------------------------------------------
(***************************************************************************)
(* Specifications                                                          *)
(***************************************************************************)
InitCompactor ==
  /\ CompactorInit /\ ChatIdle /\ PoolIdle /\ ThreadsIdle /\ SchedIdle
  /\ TimersIdle /\ FileIdle /\ LoadIdle /\ CapIdle /\ DeliverIdle /\ ParseIdle
  /\ TerminalIdle /\ FetchIdle /\ InboundIdle /\ BotsIdle /\ DispatchIdle
  /\ TurnIdle /\ SingletonIdle /\ RouteIdle /\ RegisterIdle /\ SharedIdle

SpecCompactor == InitCompactor /\ [][NextCompactor]_vars

InitChat ==
  /\ ChatInit /\ CompactorIdle /\ PoolIdle /\ ThreadsIdle /\ SchedIdle
  /\ TimersIdle /\ FileIdle /\ LoadIdle /\ CapIdle /\ DeliverIdle /\ ParseIdle
  /\ TerminalIdle /\ FetchIdle /\ InboundIdle /\ BotsIdle /\ DispatchIdle
  /\ TurnIdle /\ SingletonIdle /\ RouteIdle /\ RegisterIdle /\ SharedIdle

SpecChat == InitChat /\ [][NextChat]_vars

InitPool ==
  /\ PoolInit /\ ThreadsIdle /\ CompactorIdle /\ ChatIdle /\ SchedIdle
  /\ TimersIdle /\ FileIdle /\ LoadIdle /\ CapIdle /\ DeliverIdle /\ ParseIdle
  /\ TerminalIdle /\ FetchIdle /\ InboundIdle /\ BotsIdle /\ DispatchIdle
  /\ TurnIdle /\ SingletonIdle /\ RouteIdle /\ RegisterIdle /\ SharedIdle

SpecPool == InitPool /\ [][NextPool]_vars

SpecPoolConc == InitPool /\ [][NextPoolConc]_vars

InitSched ==
  /\ SchedInit /\ PoolIdle /\ ThreadsIdle /\ CompactorIdle /\ ChatIdle
  /\ TimersIdle /\ FileIdle /\ LoadIdle /\ CapIdle /\ DeliverIdle /\ ParseIdle
  /\ TerminalIdle /\ FetchIdle /\ InboundIdle /\ BotsIdle /\ DispatchIdle
  /\ TurnIdle /\ SingletonIdle /\ RouteIdle /\ RegisterIdle /\ SharedIdle

SpecSched == InitSched /\ [][NextSched]_vars

InitTimers ==
  /\ TimersInit /\ SchedIdle /\ PoolIdle /\ ThreadsIdle /\ CompactorIdle
  /\ ChatIdle /\ FileIdle /\ LoadIdle /\ CapIdle /\ DeliverIdle /\ ParseIdle
  /\ TerminalIdle /\ FetchIdle /\ InboundIdle /\ BotsIdle /\ DispatchIdle
  /\ TurnIdle /\ SingletonIdle /\ RouteIdle /\ RegisterIdle /\ SharedIdle

SpecTimers == InitTimers /\ [][NextTimers]_vars

InitFile ==
  /\ FileInit /\ TimersIdle /\ SchedIdle /\ PoolIdle /\ ThreadsIdle
  /\ CompactorIdle /\ ChatIdle /\ LoadIdle /\ CapIdle /\ DeliverIdle
  /\ ParseIdle /\ TerminalIdle /\ FetchIdle /\ InboundIdle /\ BotsIdle
  /\ DispatchIdle /\ TurnIdle /\ SingletonIdle /\ RouteIdle /\ RegisterIdle
  /\ SharedIdle

SpecFile == InitFile /\ [][NextFile]_vars

InitLoad ==
  /\ LoadInit /\ CompactorIdle /\ ChatIdle /\ PoolIdle /\ ThreadsIdle
  /\ SchedIdle /\ TimersIdle /\ FileIdle /\ CapIdle /\ DeliverIdle
  /\ ParseIdle /\ TerminalIdle /\ FetchIdle /\ InboundIdle /\ BotsIdle
  /\ DispatchIdle /\ TurnIdle /\ SingletonIdle /\ RouteIdle /\ RegisterIdle
  /\ SharedIdle

SpecLoad == InitLoad /\ [][NextLoad]_vars

InitCap ==
  /\ CapInit /\ CompactorIdle /\ ChatIdle /\ PoolIdle /\ ThreadsIdle
  /\ SchedIdle /\ TimersIdle /\ FileIdle /\ LoadIdle /\ DeliverIdle
  /\ ParseIdle /\ TerminalIdle /\ FetchIdle /\ InboundIdle /\ BotsIdle
  /\ DispatchIdle /\ TurnIdle /\ SingletonIdle /\ RouteIdle /\ RegisterIdle
  /\ SharedIdle

SpecCap == InitCap /\ [][NextCap]_vars

InitDeliver ==
  /\ DeliverInit /\ CompactorIdle /\ ChatIdle /\ PoolIdle /\ ThreadsIdle
  /\ SchedIdle /\ TimersIdle /\ FileIdle /\ LoadIdle /\ CapIdle /\ ParseIdle
  /\ TerminalIdle /\ FetchIdle /\ InboundIdle /\ BotsIdle /\ DispatchIdle
  /\ TurnIdle /\ SingletonIdle /\ RouteIdle /\ RegisterIdle /\ SharedIdle

SpecDeliver == InitDeliver /\ [][NextDeliver]_vars

InitParse ==
  /\ ParseInit /\ CompactorIdle /\ ChatIdle /\ PoolIdle /\ ThreadsIdle
  /\ SchedIdle /\ TimersIdle /\ FileIdle /\ LoadIdle /\ CapIdle
  /\ DeliverIdle /\ TerminalIdle /\ FetchIdle /\ InboundIdle /\ BotsIdle
  /\ DispatchIdle /\ TurnIdle /\ SingletonIdle /\ RouteIdle /\ RegisterIdle
  /\ SharedIdle

SpecParse == InitParse /\ [][NextParse]_vars

InitTerminal ==
  /\ TerminalInit /\ CompactorIdle /\ ChatIdle /\ PoolIdle /\ ThreadsIdle
  /\ SchedIdle /\ TimersIdle /\ FileIdle /\ LoadIdle /\ CapIdle
  /\ DeliverIdle /\ ParseIdle /\ FetchIdle /\ InboundIdle /\ BotsIdle
  /\ DispatchIdle /\ TurnIdle /\ SingletonIdle /\ RouteIdle /\ RegisterIdle
  /\ SharedIdle

SpecTerminal == InitTerminal /\ [][NextTerminal]_vars

InitFetch ==
  /\ FetchInit /\ CompactorIdle /\ ChatIdle /\ PoolIdle /\ ThreadsIdle
  /\ SchedIdle /\ TimersIdle /\ FileIdle /\ LoadIdle /\ CapIdle
  /\ DeliverIdle /\ ParseIdle /\ TerminalIdle /\ InboundIdle /\ BotsIdle
  /\ DispatchIdle /\ TurnIdle /\ SingletonIdle /\ RouteIdle /\ RegisterIdle
  /\ SharedIdle

SpecFetch == InitFetch /\ [][NextFetch]_vars

InitInbound ==
  /\ InboundInit /\ CompactorIdle /\ ChatIdle /\ PoolIdle /\ ThreadsIdle
  /\ SchedIdle /\ TimersIdle /\ FileIdle /\ LoadIdle /\ CapIdle
  /\ DeliverIdle /\ ParseIdle /\ TerminalIdle /\ FetchIdle /\ BotsIdle
  /\ DispatchIdle /\ TurnIdle /\ SingletonIdle /\ RouteIdle /\ RegisterIdle
  /\ SharedIdle

SpecInbound == InitInbound /\ [][NextInbound]_vars

InitBots ==
  /\ BotsInit /\ CompactorIdle /\ ChatIdle /\ PoolIdle /\ ThreadsIdle
  /\ SchedIdle /\ TimersIdle /\ FileIdle /\ LoadIdle /\ CapIdle
  /\ DeliverIdle /\ ParseIdle /\ TerminalIdle /\ FetchIdle /\ InboundIdle
  /\ DispatchIdle /\ TurnIdle /\ SingletonIdle /\ RouteIdle /\ RegisterIdle
  /\ SharedIdle

SpecBots == InitBots /\ [][NextBots]_vars

InitDispatch ==
  /\ DispatchInit /\ CompactorIdle /\ ChatIdle /\ PoolIdle /\ ThreadsIdle
  /\ SchedIdle /\ TimersIdle /\ FileIdle /\ LoadIdle /\ CapIdle
  /\ DeliverIdle /\ ParseIdle /\ TerminalIdle /\ FetchIdle /\ InboundIdle
  /\ BotsIdle /\ TurnIdle /\ SingletonIdle /\ RouteIdle /\ RegisterIdle
  /\ SharedIdle

SpecDispatch == InitDispatch /\ [][NextDispatch]_vars

InitTurn ==
  /\ TurnInit /\ CompactorIdle /\ ChatIdle /\ PoolIdle /\ ThreadsIdle
  /\ SchedIdle /\ TimersIdle /\ FileIdle /\ LoadIdle /\ CapIdle
  /\ DeliverIdle /\ ParseIdle /\ TerminalIdle /\ FetchIdle /\ InboundIdle
  /\ BotsIdle /\ DispatchIdle /\ SingletonIdle /\ RouteIdle /\ RegisterIdle
  /\ SharedIdle

SpecTurn == InitTurn /\ [][NextTurn]_vars

InitSingleton ==
  /\ SingletonInit /\ CompactorIdle /\ ChatIdle /\ PoolIdle /\ ThreadsIdle
  /\ SchedIdle /\ TimersIdle /\ FileIdle /\ LoadIdle /\ CapIdle
  /\ DeliverIdle /\ ParseIdle /\ TerminalIdle /\ FetchIdle /\ InboundIdle
  /\ BotsIdle /\ DispatchIdle /\ TurnIdle /\ RouteIdle /\ RegisterIdle
  /\ SharedIdle

SpecSingleton == InitSingleton /\ [][NextSingleton]_vars

InitRoute ==
  /\ RouteInit /\ CompactorIdle /\ ChatIdle /\ PoolIdle /\ ThreadsIdle
  /\ SchedIdle /\ TimersIdle /\ FileIdle /\ LoadIdle /\ CapIdle
  /\ DeliverIdle /\ ParseIdle /\ TerminalIdle /\ FetchIdle /\ InboundIdle
  /\ BotsIdle /\ DispatchIdle /\ TurnIdle /\ SingletonIdle /\ RegisterIdle
  /\ SharedIdle

SpecRoute == InitRoute /\ [][NextRoute]_vars

InitRegister ==
  /\ RegisterInit /\ CompactorIdle /\ ChatIdle /\ PoolIdle /\ ThreadsIdle
  /\ SchedIdle /\ TimersIdle /\ FileIdle /\ LoadIdle /\ CapIdle
  /\ DeliverIdle /\ ParseIdle /\ TerminalIdle /\ FetchIdle /\ InboundIdle
  /\ BotsIdle /\ DispatchIdle /\ TurnIdle /\ SingletonIdle /\ RouteIdle
  /\ SharedIdle

SpecRegister == InitRegister /\ [][NextRegister]_vars

InitShared ==
  /\ SharedInit /\ CompactorIdle /\ ChatIdle /\ PoolIdle /\ ThreadsIdle
  /\ SchedIdle /\ TimersIdle /\ FileIdle /\ LoadIdle /\ CapIdle
  /\ DeliverIdle /\ ParseIdle /\ TerminalIdle /\ FetchIdle /\ InboundIdle
  /\ BotsIdle /\ DispatchIdle /\ TurnIdle /\ SingletonIdle /\ RouteIdle
  /\ RegisterIdle

SpecShared == InitShared /\ [][NextShared]_vars

-----------------------------------------------------------------------------
(***************************************************************************)
(* Properties of the compactor                                             *)
(***************************************************************************)
\* the tool calls of an assistant message, in either shape
CallsOf(m) == IF m.content = "list" THEN m.uses ELSE m.calls

\* every tool_use is immediately followed by its matching results, and
\* every tool result follows the tool_use that initiated it
PairsIntact(h) ==
  /\ \A i \in 1..Len(h) :
       IsToolUse(h[i]) =>
         \A k \in 1..Len(CallsOf(h[i])) :
           /\ i + k <= Len(h)
           /\ IsToolResult(h[i + k])
           /\ h[i + k].result = CallsOf(h[i])[k]
  /\ \A j \in 1..Len(h) :
       IsToolResult(h[j]) =>
         \E i \in 1..(j - 1) :
           /\ IsToolUse(h[i])
           /\ j - i <= Len(CallsOf(h[i]))
           /\ CallsOf(h[i])[j - i] = h[j].result

\* C1: for every history and every configuration (keep_recent a natural
\* number) compact returns a history in which every tool_use is immediately
\* followed by its matching tool_result and no tool result is orphaned.
C1_CompactReturnsPairedHistory ==
  /\ cOut # "IndexError"
  /\ PairsIntact(cHist)

\* Whenever compact does return, the returned history keeps its pairs.
C1_PairsKeptWhenCompactReturns ==
  cOut # "IndexError" => PairsIntact(cHist)

\* compact actually cut a history that holds a tool exchange
C1_WitnessCutWithExchange ==
  /\ cOut \in {"summary", "recent"}
  /\ cCut > 0
  /\ \E i \in 1..Len(cHist) : IsToolUse(cHist[i])

-----------------------------------------------------------------------------
(***************************************************************************)
(* Properties of Agent.chat                                                *)
(***************************************************************************)
Min(a, b) == IF a < b THEN a ELSE b

\* the last two messages of history are the user turn and the assistant
\* turn of the chat that just returned
LastTwoAreThisTurn ==
  /\ Len(aHist) >= 2
  /\ aHist[Len(aHist) - 1].role = "user"
  /\ aHist[Len(aHist) - 1].id = aRet.id - 1
  /\ aHist[Len(aHist)].role = "assistant"
  /\ aHist[Len(aHist)].id = aRet.id
  /\ aHist[Len(aHist)].chars = aRet.chars

\* the length of history after a chat that returned: two more than before,
\* unless compact-or-trim shortened it
GrownByTwoUnlessShortened ==
  /\ aOut = "unchanged" => Len(aHist) = aLen0 + 2
  /\ ~aCompactor => Len(aHist) = Min(aLen0 + 2, MaxMessages)
  /\ aOut = "summary" => Len(aHist) = DefaultKeepRecent + 1
  /\ aOut = "recent" => Len(aHist) = DefaultKeepRecent

\* C2 as stated: when chat returns after a tool handler raised, every
\* failure was followed by a further provider call and history has grown
\* by exactly 2 messages.
C2_FailureFedBackAndGrownByTwo ==
  (aPc = "returned" /\ aFailed) =>
    /\ ~aPending
    /\ Len(aHist) = aLen0 + 2

\* C2 amended: a handler that raises never ends the chat, and its failure
\* is followed by a further provider call unless it happened in the
\* response to the 10th (last) provider call; when chat returns it has
\* appended exactly the user turn and the final assistant turn, so history
\* is 2 longer than before unless compact-or-trim shortened it.
C2_FailureFedBackBeforeCap ==
  /\ (aPending /\ aPc # "loop") =>
       (aPc = "returned" /\ aIter = MAX_TOOL_ITERATIONS
          /\ aRet.kind = "fallback")
  /\ (aPc = "returned" /\ aFailed) =>
       (LastTwoAreThisTurn /\ GrownByTwoUnlessShortened)

\* a chat returned the model's final answer after a tool failure was fed
\* back to it
C2_WitnessFailureThenFinal ==
  /\ aPc = "returned"
  /\ aFailed
  /\ ~aPending
  /\ aRet.kind = "final"
  /\ aIter >= 2
  /\ Len(aHist) = aLen0 + 2

\* C3 as stated: one chat call makes at most 10 provider calls, and a chat
\* that stopped at the bound has grown history by exactly 2.
C3_AtMostTenCallsAndGrownByTwo ==
  /\ aIter + aSumCalls <= MAX_TOOL_ITERATIONS
  /\ (aPc = "returned" /\ aRet.kind = "fallback") =>
       Len(aHist) = aLen0 + 2

\* C3 amended: the tool loop of one chat call makes at most 10 provider
\* calls (the compactor may add one summarization call afterwards); at the
\* bound the only step left commits the latest response text, or the stuck
\* text when that is empty, and returns it without raising; the user turn
\* and that assistant turn are the last two messages of history, which is
\* 2 longer than before unless compact-or-trim shortened it.
C3_LoopBoundedAndFallbackCommitted ==
  /\ aIter <= MAX_TOOL_ITERATIONS
  /\ aSumCalls <= 1
  /\ aOut # "IndexError"
  /\ (aPc = "loop" /\ aIter = MAX_TOOL_ITERATIONS) =>
       (ENABLED MaxIterations /\ ~ENABLED ProviderTools
          /\ ~ENABLED ProviderFinal /\ ~ENABLED ProviderRaises)
  /\ (aPc = "returned" /\ aRet.kind = "fallback") =>
       /\ aIter = MAX_TOOL_ITERATIONS
       /\ aRet.chars = IF aLastText > 0 THEN aLastText ELSE StuckTextLen
       /\ LastTwoAreThisTurn
       /\ GrownByTwoUnlessShortened

\* a chat whose ten responses all carried tool calls returned the stuck
\* text
C3_WitnessStuckFallback ==
  /\ aPc = "returned"
  /\ aRet.kind = "fallback"
  /\ aIter = MAX_TOOL_ITERATIONS
  /\ aRet.chars = StuckTextLen
  /\ Len(aHist) = aLen0 + 2

-----------------------------------------------------------------------------
(***************************************************************************)
(* Properties of AgentPool                                                 *)
(***************************************************************************)
HitOf(call) == \E i \in 1..Len(call.before) : call.before[i].key = call.key

\* C4: a get_agent call for a (name, sender) pair whose entry was not
\* evicted since the pair's previous call returns the instance that call
\* returned, and a call that finds its key in the cache constructs nothing.
C4_SamePairSameInstanceUntilEvicted ==
  /\ (pLast.error = "" /\ pLast.prev # 0) =>
        (pLast.inst = pLast.prev /\ ~pLast.created)
  /\ HitOf(pLast) => ~pLast.created
  /\ HitOf(pLast) => \E i \in 1..Len(pLast.before) :
        /\ pLast.before[i].key = pLast.key
        /\ pLast.before[i].inst = pLast.inst

\* a pair is served again from the cache after another entry was evicted
C4_WitnessHitAfterEviction ==
  /\ pLast.error = ""
  /\ pLast.prev # 0
  /\ pLast.inst = pLast.prev
  /\ pEvicted # {}

\* C6: the cache never holds more than MAX_CACHE entries, and a call for a
\* new key made when it holds exactly MAX_CACHE entries evicts exactly one
\* entry, the least recently used one, a hit being a use.
C6_AtMostMaxCacheAndLruEvicted ==
  /\ Len(pAgents) <= MAX_CACHE
  /\ (pLast.created /\ Len(pLast.before) = MAX_CACHE) =>
        (pLast.evicted = {pLast.lru} /\ Len(pAgents) = MAX_CACHE)
  /\ (pLast.created /\ Len(pLast.before) < MAX_CACHE) => pLast.evicted = {}

\* a full cache evicts an entry that is not its oldest: the oldest was used
\* by a hit in between
C6_WitnessEvictedIsNotTheOldest ==
  /\ pLast.created
  /\ Len(pLast.before) = MAX_CACHE
  /\ pLast.evicted = {pLast.lru}
  /\ \E i, j \in 1..Len(pLast.before) :
       /\ pLast.before[i].key = pLast.lru
       /\ pLast.before[j].inst < pLast.before[i].inst

\* C7: two different senders of one agent name hold different instances,
\* and no instance has handled messages of two senders of one agent name.
C7_SendersOfOneNameNeverShare ==
  /\ \A p, q \in Pairs :
       (p.name = q.name /\ p.sender # q.sender /\ pSeen[p] # 0
          /\ pSeen[q] # 0) => pSeen[p] # pSeen[q]
  /\ \A i \in 1..MaxAgents : \A p, q \in pTouched[i] :
       (ResolveName(p.name, pConfigs) = ResolveName(q.name, pConfigs))
          => p.sender = q.sender

\* two senders of one agent name have both chatted, each on its own
\* cached instance
C7_WitnessTwoSendersTwoInstances ==
  \E p, q \in Pairs :
    /\ p.name = q.name
    /\ p.sender # ""
    /\ q.sender # ""
    /\ p.sender # q.sender
    /\ pSeen[p] # 0
    /\ pSeen[q] # 0
    /\ p \in pTouched[pSeen[p]]
    /\ q \in pTouched[pSeen[q]]

-----------------------------------------------------------------------------
(***************************************************************************)
(* Properties of get_agent under concurrent requests                       *)
(***************************************************************************)
\* C5: concurrent get_agent calls for one (name, sender) pair, whose key
\* was never evicted, construct one agent and all return that instance.
C5_ConcurrentCallsShareOneInstance ==
  \A t, u \in Threads :
    (/\ t # u
     /\ tPc[t] = "done"
     /\ tPc[u] = "done"
     /\ tReq[t] = tReq[u]
     /\ tReq[t].key \notin pEvicted)
      => (tRet[t] = tRet[u] /\ (tNew[t] = 0 \/ tNew[u] = 0))

-----------------------------------------------------------------------------
(***************************************************************************)
(* Properties of the scheduler                                             *)
(***************************************************************************)
\* C8: every job that is enabled and due when a tick of the timer loop
\* begins is attempted in that tick, whatever happened to the jobs before
\* it in the tick.
C8_DueJobsAttemptedInTheirTick == sMissed = {}

\* C8, as far as it holds: a tick in which no _save_jobs raised attempts
\* every job that was enabled and due when it began.
C8_DueJobsAttemptedWhenTickReturns ==
  sTickEnd = "returned" => sMissed = {}

\* C9: a failed execution adds exactly 1 to failures, sets last_run to the
\* time of the failure and next_run to that time plus min(2^failures, 60)
\* minutes for the new count; an execution of a job that failed before
\* does not start until that many minutes after its last failure.
C9_FailureBacksOffExponentially ==
  /\ (sExec.job # 0 /\ ~sExec.ok) =>
       /\ sExec.after.failures = sExec.before.failures + 1
       /\ sExec.after.last_run = sExec.at
       /\ sExec.after.next_run =
            sExec.at + Min(Pow2(sExec.after.failures), 60)
  /\ (sExec.job # 0 /\ sExec.before.failures > 0) =>
       sExec.started >=
         sExec.before.last_run + Min(Pow2(sExec.before.failures), 60)

\* a job fails a second time, after its first backoff has elapsed
C9_WitnessSecondFailure ==
  /\ sExec.job # 0
  /\ ~sExec.ok
  /\ sExec.before.failures = 1
  /\ sExec.after.next_run = sExec.at + 4

\* C10: a job whose failures reach max_failures is disabled by that very
\* failure, the timer loop executes enabled jobs only, an enabled job has
\* failures < max_failures, and no job fails more than max_failures times
\* in a row.
C10_DisabledAtMaxFailures ==
  /\ \A i \in JobIds :
       sJobs[i].enabled => sJobs[i].failures < sJobs[i].max_failures
  /\ \A i \in JobIds : sRow[i] <= DefaultMaxFailures
  /\ sExec.job # 0 => sExec.before.enabled
  /\ (sExec.job # 0 /\ ~sExec.ok
        /\ sExec.after.failures = sExec.after.max_failures)
       => ~sExec.after.enabled

\* a job has failed three times in a row and is disabled
C10_WitnessDisabledAfterThreeFailures ==
  \E i \in sIn :
    /\ sJobs[i].failures = DefaultMaxFailures
    /\ sRow[i] = DefaultMaxFailures
    /\ ~sJobs[i].enabled

\* C11: the first successful execution of a one-shot ('at ') job disables
\* it, and a one-shot job that has had a successful execution is never
\* executed again.
C11_OneShotRunsSuccessfullyOnce ==
  /\ (sExec.job # 0 /\ sExec.before.schedule.kind = "at") => ~sExec.again
  /\ (sExec.job # 0 /\ sExec.ok /\ sExec.before.schedule.kind = "at")
       => ~sExec.after.enabled
  /\ \A i \in sWon :
       sJobs[i].schedule.kind = "at" => ~sJobs[i].enabled

\* a one-shot job has succeeded, and a later tick of the timer loop has
\* passed over it
C11_WitnessOneShotPassedOver ==
  \E i \in sIn \cap sWon :
    /\ sJobs[i].schedule.kind = "at"
    /\ sJobs[i].next_run <= sTickNow
    /\ sJobs[i].last_run < sTickNow
    /\ sTickEnd = "returned"
    /\ sPc = "sleep"
    /\ sExec.job = i

-----------------------------------------------------------------------------
(***************************************************************************)
(* Properties of the timer threads                                         *)
(***************************************************************************)
LiveLoops == {t \in LoopIds : lPc[t] \notin {"none", "exited"}}

\* C13: at most one timer loop is alive at any time, no two executions of
\* jobs overlap, and the due occurrence of the stored job is executed once.
C13_AtMostOneTimerLoop ==
  /\ Cardinality(LiveLoops) <= 1
  /\ Cardinality({t \in LoopIds : lPc[t] = "run"}) <= 1
  /\ lExecuted <= 1

-----------------------------------------------------------------------------
(***************************************************************************)
(* Properties of the jobs file                                             *)
(***************************************************************************)
\* C14: the jobs file always holds one complete JSON array, also when the
\* process dies in mid-write, and once every add_job and remove_job has
\* returned it holds exactly the jobs of the scheduler: no mutation is
\* lost.
C14_FileCompleteAndNothingLost ==
  /\ fFile.complete
  /\ (\A w \in Writers : wPc[w] = "idle") => fFile.jobs = fMem

\* C15: after any add_job, remove_job or job execution the jobs file holds
\* exactly the jobs of the scheduler, every field as in memory, so that a
\* fresh scheduler loading the file gets the same job set.
C15_FileEqualsJobsInMemory == sFile = Saved(sJobs, sIn)

-----------------------------------------------------------------------------
(***************************************************************************)
(* Properties of loading the jobs file                                     *)
(***************************************************************************)
\* C16: at startup every valid record of the jobs file is loaded, whatever
\* the other records of the file are, and no invalid record is loaded.
C16_ValidRecordsSurviveBadOnes ==
  dPc = "loaded" =>
    /\ \A k \in 1..Len(dFile) :
         dFile[k].kind = "job" => \E r \in dJobs : r.id = dFile[k].id
    /\ \A r \in dJobs : r.kind = "job"

-----------------------------------------------------------------------------
(***************************************************************************)
(* Properties of the ceiling on jobs                                       *)
(***************************************************************************)
\* C17: the number of scheduled jobs never exceeds the maximum, whichever
\* entry point adds the jobs and however concurrent adds interleave.
C17_NeverMoreThanMaxJobs == kJobs <= MAX_CRON_JOBS

-----------------------------------------------------------------------------
(***************************************************************************)
(* Properties of result delivery                                           *)
(***************************************************************************)
\* C18: the result of a successful run is either delivered by
\* send_proactive or written to a file under results/; a send that fails,
\* by raising or by returning success False, falls back to the file.
C18_ResultDeliveredOrOnDisk ==
  vPc = "done" => vResult \in {"delivered", "file"}

-----------------------------------------------------------------------------
(***************************************************************************)
(* Properties of schedule parsing                                          *)
(***************************************************************************)
\* the natural period of a schedule that is not a cron expression
NaturalPeriod(s) ==
  IF s.kind = "every" THEN s.n * UnitMinutes(s.unit)
  ELSE IF s.kind = "weekday" THEN WeekDays * DayMinutes
  ELSE DayMinutes

\* C19: when next_run yields a time for a schedule that is not a cron
\* expression, the time is strictly later than from_time and at most the
\* natural period of the schedule after it.
C19_LaterWithinNaturalPeriod ==
  (nPc = "parsed" /\ nSchedule.kind # "cron" /\ nOut \notin {None, Raised})
    =>
    /\ nOut > nNow
    /\ nOut - nNow <= NaturalPeriod(nSchedule)

\* cron's day of week: 0 is Sunday, 6 is Saturday
CronDayOfWeek(t) == (Weekday(t) + 1) % WeekDays

StandardMatches(f, t) ==
  /\ MinuteOf(t) \in Expand(f[1], 0, 59)
  /\ HourOf(t) \in Expand(f[2], 0, 23)
  /\ DayOfMonth(t) \in Expand(f[3], 1, 31)
  /\ MonthOf(t) \in Expand(f[4], 1, 12)
  /\ CronDayOfWeek(t) \in Expand(f[5], 0, 6)

\* C20: for a cron schedule next_run returns the earliest whole minute
\* strictly after from_time, within the scanned period, whose minute, hour,
\* day of month, month and day of week (0 = Sunday) match the five fields,
\* and no next run when there is none.
C20_CronEarliestStandardMatch ==
  (nPc = "parsed" /\ nSchedule.kind = "cron") =>
    LET hits == {t \in CronWindow(nNow) : StandardMatches(nSchedule.f, t)}
    IN IF hits = {} THEN nOut = None
       ELSE nOut \in hits /\ \A u \in hits : nOut <= u

\* C21: for every schedule next_run returns a time or None and never
\* raises: an unknown form, and a known form with an unparsable or
\* out-of-range time, give None.
C21_ParsingNeverRaises == nPc = "parsed" => nOut # Raised

-----------------------------------------------------------------------------
-----------------------------------------------------------------------------
(***************************************************************************)
(* Properties of fetch_url                                                 *)
(***************************************************************************)
\* C23: every URL fetch_url requests, the first one and every redirect hop,
\* was accepted by validate_url before the request; one fetch makes at most
\* MAX_REDIRECTS requests; a URL with a private, loopback or metadata host
\* is never requested, and a redirect to one ends the fetch with an error.
C23_OnlyValidatedUrlsRequested ==
  /\ \A k \in 1..Len(hRequested) :
       /\ hRequested[k] \in hAccepted
       /\ hClass[hRequested[k]] \notin {"private", "metadata"}
  /\ Len(hRequested) <= MAX_REDIRECTS
  /\ (hPc = "returned" /\ Len(hRequested) > 0
        /\ hAnswer[hRequested[Len(hRequested)]] \in Urls
        /\ hClass[hAnswer[hRequested[Len(hRequested)]]] # "public")
       => hRet = "redirect blocked"

C23_WitnessRedirectToMetadataBlocked ==
  /\ hPc = "returned" /\ Len(hRequested) = 1
  /\ hAnswer[hUrl] \in Urls /\ hClass[hAnswer[hUrl]] = "metadata"
  /\ hRet = "redirect blocked"

-----------------------------------------------------------------------------
(***************************************************************************)
(* Properties of the gateway's inbound pipeline                            *)
(***************************************************************************)
BehindTheChecks ==
  {"route", "get_agent", "chat", "format_webhook_response", "send_message"}

Called(name) == \E k \in 1..Len(iCalls) : iCalls[k] = name

\* C24: process_inbound reaches the router, the pool, the agent and the
\* channel's send only for a registered and configured channel whose
\* validate_webhook returned true and whose parse_inbound returned a
\* message, tested in that order; otherwise it returns its error or
\* skipped result without any of these calls.
C24_AgentOnlyBehindTheChecks ==
  /\ (\E n \in BehindTheChecks : Called(n)) =>
       /\ iEnv.registered /\ iEnv.configured /\ iEnv.validate /\ iEnv.parse
       /\ SubSeq(iCalls, 1, 3)
            = <<"is_configured", "validate_webhook", "parse_inbound">>
  /\ iPc = "returned" =>
       /\ ~(iEnv.registered /\ iEnv.configured)
            => (iRet = "Channel not configured" /\ Len(iCalls) <= 1)
       /\ (iEnv.registered /\ iEnv.configured /\ ~iEnv.validate)
            => (iRet = "Invalid signature" /\ Len(iCalls) = 2)
       /\ (iEnv.registered /\ iEnv.configured /\ iEnv.validate
             /\ ~iEnv.parse)
            => (iRet = "skipped" /\ Len(iCalls) = 3)

C24_WitnessInvalidSignatureStops ==
  /\ iPc = "returned" /\ iRet = "Invalid signature"
  /\ iEnv.parse /\ iEnv.mode = "agent"
  /\ iCalls = <<"is_configured", "validate_webhook">>

\* C25: an exception of agent.chat is replaced by the stable error string,
\* and no exception raised while a message is handled leaves
\* process_inbound.
C25_NoExceptionLeavesProcessInbound ==
  /\ iPc # "raised"
  /\ (Called("chat") /\ iEnv.chat_raises) => iText = StableError

\* C26: for a message that reached the agent on an async-reply channel,
\* send_message is called exactly once, with the reply text and the
\* metadata of the inbound message; on any other channel process_inbound
\* calls no send_message.
C26_OneSendWithEchoedMetadata ==
  /\ Len(iSent) <= 1
  /\ ~iEnv.async => iSent = <<>>
  /\ (iPc \in {"returned", "raised"} /\ Called("chat") /\ iEnv.async)
       => iSent = <<[text |-> iText, meta |-> iEnv.meta]>>

C26_WitnessAsyncReplySent ==
  /\ iPc = "returned" /\ iRet = "success" /\ iEnv.async /\ iEnv.meta = "m2"
  /\ iSent = <<[text |-> "reply", meta |-> "m2"]>>


\* C27: every configured long-lived channel (Discord, IRC, Twitch) is
\* started during gateway registration, and each message it receives is
\* handed to _process_message.
C27_LongLivedChannelsStarted ==
  bPc = "configured" =>
    /\ bChannels \subseteq bStarted
    /\ \A ch \in bChannels : bHanded[ch] = bPosted[ch]

-----------------------------------------------------------------------------
(***************************************************************************)
(* Properties of tool dispatch                                             *)
(***************************************************************************)
\* the two error strings of the contract and the plain conversion
UnknownToolText(name) == "Error: Unknown tool '" \o name \o "'"

FailedText(call) ==
  "Tool '" \o call.name \o "' failed: " \o call.does.etype \o ": "
    \o call.does.emsg

\* C28 as stated: dispatch never raises; each tool call gets the unknown
\* tool string when its name is not registered, the failed string when the
\* handler raises, and otherwise str() of the handler's result; the loop
\* goes on with these strings as tool results.
C28_DispatchStringIsStrOfResult ==
  /\ ePc # "raised"
  /\ Len(eResults) = eDone
  /\ \A k \in 1..eDone :
       LET call == eCalls[k] IN
         eResults[k] =
           IF call.name \notin RegisteredTools THEN UnknownToolText(call.name)
           ELSE IF call.does.raises THEN FailedText(call)
           ELSE Str(call.does.value)

\* C28 amended: as above, with "Done." as the string of a handler that
\* returned None.
C28_DispatchNeverRaisesDoneForNone ==
  /\ ePc # "raised"
  /\ Len(eResults) = eDone
  /\ \A k \in 1..eDone :
       LET call == eCalls[k] IN
         eResults[k] =
           IF call.name \notin RegisteredTools THEN UnknownToolText(call.name)
           ELSE IF call.does.raises THEN FailedText(call)
           ELSE IF call.does.value.type = "none" THEN "Done."
           ELSE Str(call.does.value)

C28_WitnessFailureThenLoopContinues ==
  /\ ePc = "next iteration"
  /\ eResults = <<"Tool 'read' failed: OSError: disk", "Done.">>

-----------------------------------------------------------------------------
StreamedCall(k) == qApi[k].api = "stream"

\* C30: in chat_stream every tool iteration uses the non-streaming API and
\* the final assistant turn, the one without tool calls, is the one that
\* is streamed; tool calls in the streaming pass are executed and followed
\* by exactly one further non-streaming call, whose output is emitted as a
\* single text event and committed as the assistant message of the turn.
C30_FinalTurnStreamedLateToolsRecovered ==
  (qMode = "chat_stream" /\ qPc = "returned") =>
    LET n == Len(qApi) IN
      /\ \A k \in 1..n :
           (qApi[k].tools /\ StreamedCall(k)) => k = n - 1
      /\ \A k \in 1..n : StreamedCall(k) => k >= n - 1
      /\ (~StreamedCall(n) \/ ~qApi[n].tools)
      /\ (n >= 2 /\ StreamedCall(n - 1)) =>
           /\ qApi[n - 1].tools /\ qApi[n].api = "chat"
           /\ qEvents[Len(qEvents)] = DoneEvent
           /\ qEvents[Len(qEvents) - 1].type = "text"
           /\ qEvents[Len(qEvents) - 1].from = "provider.chat"
           /\ qHist[Len(qHist)]
                = Message("assistant", "none", qEvents[Len(qEvents) - 1].text)
      /\ ~(n >= 2 /\ StreamedCall(n - 1)) => StreamedCall(n)

-----------------------------------------------------------------------------
(***************************************************************************)
(* Properties of compact: what it leaves alone and what it returns         *)
(***************************************************************************)
\* the split point compact uses, where _safe_split_point returns one
AdjustedSplit(h, cfg) == SafeSplitPoint(h, Len(h) - cfg.keep_recent)

\* C31: compact returns its input history unchanged and makes no provider
\* call whenever the history has at most keep_recent messages, or the
\* token estimate does not exceed the threshold, or the split point
\* adjusted for tool pairs is <= 0.
C31_CompactLeavesShortOrSmallHistoryAlone ==
  [][(CCompact
       /\ \/ Len(cHist) <= cCfg.keep_recent
          \/ EstimateTokens(cHist) <= ThresholdTokens(cCfg)
          \/ /\ AdjustedSplit(cHist, cCfg) # IndexError
             /\ AdjustedSplit(cHist, cCfg) <= 0)
     => (cHist' = cHist /\ cOut' = "unchanged" /\ cCalls' = 0)]_vars

\* compact returned a long history over the threshold as it was, because
\* the adjusted split point is 0
C31_WitnessSplitAdjustedToZero ==
  /\ cOut = "unchanged" /\ cCalls = 0
  /\ Len(cHist) > cCfg.keep_recent
  /\ EstimateTokens(cHist) > ThresholdTokens(cCfg)
  /\ AdjustedSplit(cHist, cCfg) = 0


\* C32: when compaction happens with adjusted split s > 0, the result is
\* history[s:] verbatim and in order, preceded by exactly one user-role
\* summary message when summarization succeeded and by nothing when it
\* failed; a failed summarization does not raise out of compact.
C32_CompactedIsSummaryPlusRecent ==
  [][(CCompact /\ NeedsCompaction(cHist, cCfg)
       /\ AdjustedSplit(cHist, cCfg) > 0)
     => LET recent == SubSeq(cHist, AdjustedSplit(cHist, cCfg) + 1,
                             Len(cHist))
        IN /\ cOut' \in {"summary", "recent"}
           /\ cCalls' = 1
           /\ cOut' = "recent" => cHist' = recent
           /\ cOut' = "summary" =>
                /\ Len(cHist') = Len(recent) + 1
                /\ Tail(cHist') = recent
                /\ Head(cHist').role = "user"
                /\ Head(cHist').content = "str"
                /\ Head(cHist').chars \in SummaryLens]_vars

\* compact cut the history after a failed summarization
C32_WitnessFailedSummaryKeepsRecent ==
  /\ cOut = "recent" /\ cCut > 0 /\ cCalls = 1
  /\ Len(cHist) >= 2

-----------------------------------------------------------------------------
(***************************************************************************)
(* Properties of the history of one agent across chat calls                *)
(***************************************************************************)
\* C33: for an agent without a compactor, after every chat call returns
\* the history holds at most max_messages messages (40 in the source,
\* MaxMessages here), namely the most recent ones in their original order:
\* the ids of the turns in history are the latest ones, consecutive.
C33_TrimKeepsTheMostRecent ==
  (aPc = "returned" /\ ~aCompactor) =>
    /\ Len(aHist) = Min(MaxMessages, aNextMsg - 1)
    /\ \A k \in 1..Len(aHist) : aHist[k].id = aNextMsg - 1 - Len(aHist) + k

C33_WitnessTrimmedToTheLatest ==
  /\ aPc = "returned" /\ ~aCompactor /\ aOut = "trim"
  /\ Len(aHist) = MaxMessages
  /\ aHist[1].id > 1

-----------------------------------------------------------------------------
(***************************************************************************)
(* Properties of the global singletons                                     *)
(***************************************************************************)
\* C34: under any interleaving of concurrent first uses and repeated
\* initialisation calls exactly one object is constructed, and every
\* caller observes that same, fully constructed object.
C34_OneObjectForEveryCaller ==
  /\ jMade <= 1
  /\ Cardinality(jSeen) <= 1
  /\ ~jSeenUnready

-----------------------------------------------------------------------------
(***************************************************************************)
(* Properties of AgentRouter.route                                         *)
(***************************************************************************)
PrefixRules ==
  {k \in 1..Len(rRules) : StartsWith(rBefore.text, rRules[k].key)}

\* C35 as stated: with the prefix strategy a message whose text starts
\* with a rule's prefix is routed to that rule's agent and its text becomes
\* the original text with exactly that prefix removed; in every other case
\* the message is unchanged and the default name is returned when no rule
\* matches.
C35_PrefixExactlyRemoved ==
  rPc = "routed" =>
    IF rStrategy = "prefix" /\ PrefixRules # {}
    THEN \E k \in PrefixRules :
           /\ rName = rRules[k].agent
           /\ rMsg = [rBefore EXCEPT
                        !.text = SubSeq(rBefore.text, Len(rRules[k].key) + 1,
                                        Len(rBefore.text))]
    ELSE /\ rMsg = rBefore
         /\ rStrategy = "prefix" => rName = "default"

\* C35 amended: the first rule, in rule order, whose prefix the text starts
\* with gives the agent, and the text becomes the original text with that
\* prefix removed and the whitespace at both ends stripped; in every other
\* case the message is unchanged.
C35_FirstPrefixRemovedAndStripped ==
  rPc = "routed" =>
    IF rStrategy = "prefix" /\ PrefixRules # {}
    THEN LET k == CHOOSE i \in PrefixRules : \A j \in PrefixRules : i <= j IN
           /\ rName = rRules[k].agent
           /\ rMsg = [rBefore EXCEPT
                        !.text = Strip(SubSeq(rBefore.text,
                                              Len(rRules[k].key) + 1,
                                              Len(rBefore.text)))]
    ELSE /\ rMsg = rBefore
         /\ rStrategy = "prefix" => rName = "default"

C35_WitnessPrefixAndBlankRemoved ==
  /\ rPc = "routed" /\ rStrategy = "prefix"
  /\ rBefore.text = <<"!", " ", "x">>
  /\ rMsg.text = <<"x">>
  /\ rName = "coder"

-----------------------------------------------------------------------------
(***************************************************************************)
(* Properties of tool registration                                         *)
(***************************************************************************)
\* the entries of the agent's schema list registered under a name
EntriesUnder(name) ==
  SelectSeq(uToolSchemas, LAMBDA e : e.under = name)

LatestWins ==
  /\ \A n \in ToolNames :
       uLastReg[n] # NoRegistration =>
         (uHandlers[n] = uLastReg[n].h /\ uSchemas[n] = uLastReg[n].s)
  /\ \A n \in ToolNames :
       uLast[n] # NoRegistration =>
         /\ uTools[n] = uLast[n].h
         /\ EntriesUnder(n) = <<Entry(uLast[n].s, n)>>

\* C36 as stated: registering a tool again under the same name leaves
\* exactly one entry for that name, bound to the latest handler and the
\* latest schema, in the registry and in the agent's handler table and
\* schema list.
C36_OneEntryPerName == LatestWins

\* C36 amended: the same, for schemas whose "name" field is the name they
\* are registered under.
C36_OneEntryPerNameOfMatchingSchemas == uMatched => LatestWins

C36_WitnessSecondRegistrationReplaces ==
  /\ uMatched /\ "a" \in uTwice
  /\ uLast["a"] = [h |-> 2, s |-> [name |-> "a", v |-> 2]]
  /\ uTools["a"] = 2
  /\ uToolSchemas = <<Entry([name |-> "a", v |-> 2], "a")>>

-----------------------------------------------------------------------------
(***************************************************************************)
(* Properties of concurrent chat calls on one agent                        *)
(***************************************************************************)
\* C37: when two requests for the same (name, sender) run concurrently on
\* the shared agent, the user turn and the assistant reply of each request
\* are adjacent in history: the appends of the two requests never
\* interleave and no append is lost.
C37_TurnsOfARequestAdjacent ==
  /\ \A k \in 1..Len(yHist) :
       yHist[k].role = "assistant" =>
         (k > 1 => yHist[k - 1]
                     = [role |-> "user", request |-> yHist[k].request])
  /\ \A k \in 1..Len(yHist) :
       (yHist[k].role = "user" /\ k < Len(yHist)) =>
         yHist[k + 1] = [role |-> "assistant", request |-> yHist[k].request]
  /\ yLost = 0

\* C38: once remove_job has returned true for a job, the timer loop does
\* not execute that job afterwards.  No write of the jobs file has raised,
\* so every remove_job so far returned true, and a job of the snapshot
\* that is no longer a key of _jobs is a job remove_job returned true for:
\* every call of _execute_job is for a job that is still a key of _jobs.
\* The removed job never comes back into list_jobs or the jobs file.
C38_RemovedJobNotExecuted ==
  [][/\ (ExecuteJob /\ sWriteFails = 0) => (Head(sSnap) \in sIn)
     /\ \A id \in JobIds :
          (id < sNextJob /\ id \notin sIn) =>
             (id \notin sIn' /\ (sFile' # sFile => id \notin sFile'.ids))]_vars

\* C39: a chat call whose provider call raised leaves history exactly as
\* it was before the call: as long as it was when chat was entered, and
\* not ending in a user turn that has no assistant reply.
C39_RaisedChatLeavesHistoryAlone ==
  aPc = "raised" =>
    /\ Len(aHist) = aLen0
    /\ Len(aHist) > 0 => aHist[Len(aHist)].role # "user"

\* C40: for configured agent names, two different (agent_name, sender_id)
\* pairs never hold the same cached instance, whatever characters the
\* name and the sender id contain; no instance has handled the messages
\* of two different pairs of configured names.
C40_DifferentPairsDifferentInstances ==
  /\ \A p, q \in Pairs :
       (p # q /\ p.name \in pConfigs /\ q.name \in pConfigs
          /\ pSeen[p] # 0 /\ pSeen[q] # 0) => pSeen[p] # pSeen[q]
  /\ \A i \in 1..MaxAgents : \A p, q \in pTouched[i] :
       (p.name \in pConfigs /\ q.name \in pConfigs) => p = q

=============================================================================
